---- MODULE Spec2Model ----
(***************************************************************************)
(* A model of the ZPP toolchain: lexer, expression parser, semantic       *)
(* analyzer, IR generator and IR interpreter.  Text is a TLA+ string; a    *)
(* character is a string of length one.                                    *)
(***************************************************************************)
EXTENDS Integers, Sequences, FiniteSets, TLC

VARIABLES
    stage,      \* position of the driver: which pipeline step comes next
    source,     \* main(): the source text
    tokens,     \* main(): result of Lexer::tokenize
    ast,        \* main(): result of Parser::parse (a Program)
    gen,        \* IRGenerator: program, tempCounter, labelCounter, symbolTable
    rt,         \* interpretIR: ip, temps, labels, stdout, trace of executed ips
    outcome,    \* how the process ended: exit code and stderr line
    errors,     \* SemanticAnalyzer::errors (static flag)
    sema,       \* record of the analyzer runs of this process
    drawn,      \* the expression the source text was written from
    lexer,      \* the Lexer object of a tokenize() call in progress
    calls       \* the nextToken() calls that tokenize() call has made

vars ==
    <<stage, source, tokens, ast, gen, rt, outcome, errors, sema, drawn, lexer,
      calls>>

(***************************************************************************)
(* Bounds of the model.                                                    *)
(***************************************************************************)
MaxLit == 3          \* integer literals of generated programs are 0..MaxLit
MaxSteps == 40       \* interpreter steps explored per run
MaxRuns == 3         \* analyzer runs per process

(***************************************************************************)
(* Text helpers.                                                           *)
(***************************************************************************)
NUL == "NUL"         \* the '\0' that currentChar() returns past the end

CharAt(s, i) == SubSeq(s, i, i)

Digits == "0123456789"

IsDigit(c) == c \in {"0", "1", "2", "3", "4", "5", "6", "7", "8", "9"}

\* std::isspace, std::isalpha
IsSpace(c) == c \in {" ", "\t", "\n", "\r", "\f"}

IsAlpha(c) ==
    LET letters == "abcdefghijklmnopqrstuvwxyzABCDEFGHIJKLMNOPQRSTUVWXYZ"
    IN  \E i \in 1..Len(letters) : CharAt(letters, i) = c

DigitVal(c) == CHOOSE d \in 0..9 : CharAt(Digits, d + 1) = c

RECURSIVE NatToString(_)
NatToString(n) ==
    IF n < 10 THEN CharAt(Digits, n + 1)
    ELSE NatToString(n \div 10) \o CharAt(Digits, (n % 10) + 1)

\* an empty std::map / std::unordered_map
EmptyMap == [n \in {} |-> 0]

\* std::to_string(int)
to_string(n) == IF n < 0 THEN "-" \o NatToString(-n) ELSE NatToString(n)

(***************************************************************************)
(* AST (parser.h).  A null pointer is the record Null.                     *)
(***************************************************************************)
Null == [k |-> "null"]

Literal(type, value) == [k |-> "Literal", type |-> type, value |-> value]
Identifier(name) == [k |-> "Identifier", name |-> name]
BinaryOp(left, op, right) ==
    [k |-> "BinaryOp", left |-> left, op |-> op, right |-> right]
UnaryOp(op, operand) == [k |-> "UnaryOp", op |-> op, operand |-> operand]
FunctionCall(name, arguments) ==
    [k |-> "FunctionCall", name |-> name, arguments |-> arguments]
InputCall(prompt) == [k |-> "InputCall", prompt |-> prompt]
KeyPressedCall(prompt) == [k |-> "KeyPressedCall", prompt |-> prompt]
ArrayAccess(array, index) ==
    [k |-> "ArrayAccess", array |-> array, index |-> index]
Assignment(name, valueExpr) ==
    [k |-> "Assignment", name |-> name, valueExpr |-> valueExpr]

BlockStatement(statements) ==
    [k |-> "BlockStatement", statements |-> statements]
ReturnStatement(expression) ==
    [k |-> "ReturnStatement", expression |-> expression]
IfStatement(condition, thenBranch, elseBranch) ==
    [k |-> "IfStatement", condition |-> condition,
     thenBranch |-> thenBranch, elseBranch |-> elseBranch]
WhileStatement(condition, body) ==
    [k |-> "WhileStatement", condition |-> condition, body |-> body]
ForStatement(init, condition, increment, body) ==
    [k |-> "ForStatement", init |-> init, condition |-> condition,
     increment |-> increment, body |-> body]
VariableDecl(name, type, initializer) ==
    [k |-> "VariableDecl", name |-> name, type |-> type,
     initializer |-> initializer]
ExpressionStatement(expression) ==
    [k |-> "ExpressionStatement", expression |-> expression]
PrintStatement(expression) ==
    [k |-> "PrintStatement", expression |-> expression]

FunctionDecl(returnType, name, parameters, body) ==
    [k |-> "FunctionDecl", returnType |-> returnType, name |-> name,
     parameters |-> parameters, body |-> body]
Program(functions) == [k |-> "Program", functions |-> functions]

(***************************************************************************)
(* Lexer (lexer.cpp).  A Lexer is the record of its fields; a function     *)
(* that reads a token returns the lexer after it and the token.            *)
(***************************************************************************)
Token(type, value, line, column) ==
    [type |-> type, value |-> value, line |-> line, column |-> column]

keywords ==
    ("if" :> "IF") @@ ("elif" :> "ELIF") @@ ("else" :> "ELSE")
    @@ ("while" :> "WHILE") @@ ("for" :> "FOR") @@ ("return" :> "RETURN")
    @@ ("print" :> "PRINT") @@ ("int" :> "INT") @@ ("float" :> "FLOAT_KW")
    @@ ("bool" :> "BOOL") @@ ("void" :> "VOID") @@ ("true" :> "TRUE_LIT")
    @@ ("false" :> "FALSE_LIT") @@ ("let" :> "LET") @@ ("input" :> "INPUT")
    @@ ("key_pressed" :> "KEY_PRESSED") @@ ("screen" :> "SCREEN")
    @@ ("drawPixel" :> "DRAW_PIXEL") @@ ("drawRect" :> "DRAW_RECT")
    @@ ("drawLine" :> "DRAW_LINE") @@ ("drawCircle" :> "DRAW_CIRCLE")
    @@ ("clearScreen" :> "CLEAR_SCREEN") @@ ("display" :> "DISPLAY")
    @@ ("quit" :> "QUIT") @@ ("isKeyDown" :> "IS_KEY_DOWN")
    @@ ("updateInput" :> "UPDATE_INPUT")

Lexer(src) == [source |-> src, position |-> 0, line |-> 1, column |-> 1]

currentChar(lx) ==
    IF lx.position >= Len(lx.source) THEN NUL
    ELSE CharAt(lx.source, lx.position + 1)

peekChar(lx, offset) ==
    IF lx.position + offset >= Len(lx.source) THEN NUL
    ELSE CharAt(lx.source, lx.position + offset + 1)

Lexer_advance(lx) ==
    IF lx.position < Len(lx.source)
    THEN IF CharAt(lx.source, lx.position + 1) = "\n"
         THEN [lx EXCEPT !.line = @ + 1, !.column = 1, !.position = @ + 1]
         ELSE [lx EXCEPT !.column = @ + 1, !.position = @ + 1]
    ELSE lx

RECURSIVE skipWhitespace(_)
skipWhitespace(lx) ==
    IF currentChar(lx) # NUL /\ IsSpace(currentChar(lx))
       /\ currentChar(lx) # "\n"
    THEN skipWhitespace(Lexer_advance(lx))
    ELSE lx

skipComment(lx) ==
    LET RECURSIVE line(_)
        line(l) == IF currentChar(l) # NUL /\ currentChar(l) # "\n"
                   THEN line(Lexer_advance(l)) ELSE l
        RECURSIVE block(_)
        block(l) ==
            IF currentChar(l) = NUL THEN l
            ELSE IF currentChar(l) = "*" /\ peekChar(l, 1) = "/"
                 THEN Lexer_advance(Lexer_advance(l))
                 ELSE block(Lexer_advance(l))
    IN  IF currentChar(lx) = "/" /\ peekChar(lx, 1) = "/"
        THEN line(Lexer_advance(Lexer_advance(lx)))
        ELSE IF currentChar(lx) = "/" /\ peekChar(lx, 1) = "*"
             THEN block(Lexer_advance(Lexer_advance(lx)))
             ELSE lx

\* readNumber that takes digits only
readNumberDigitsOnly(lx) ==
    LET startCol == lx.column
        RECURSIVE digits(_, _)
        digits(l, number) ==
            IF currentChar(l) # NUL /\ IsDigit(currentChar(l))
            THEN digits(Lexer_advance(l), number \o currentChar(l))
            ELSE [lx |-> l, text |-> number]
        r == digits(lx, "")
    IN  [lx |-> r.lx, token |-> Token("INTEGER", r.text, r.lx.line, startCol)]

readNumber(lx) ==
    LET startCol == lx.column
        RECURSIVE digits(_, _)
        digits(l, number) ==
            IF currentChar(l) # NUL
               /\ (IsDigit(currentChar(l)) \/ currentChar(l) = ".")
            THEN digits(Lexer_advance(l), number \o currentChar(l))
            ELSE [lx |-> l, text |-> number]
        r == digits(lx, "")
        isFloat == \E i \in 1..Len(r.text) : CharAt(r.text, i) = "."
    IN  [lx |-> r.lx,
         token |-> Token(IF isFloat THEN "FLOAT" ELSE "INTEGER",
                         r.text, r.lx.line, startCol)]

\* an escape at the end of the text appends the '\0' that currentChar returns
readString(lx) ==
    LET startCol == lx.column
        quote == currentChar(lx)
        Escaped(c) == CASE c = "n" -> "\n"
                        [] c = "t" -> "\t"
                        [] OTHER -> c
        RECURSIVE chars(_, _)
        chars(l, str) ==
            IF currentChar(l) # NUL /\ currentChar(l) # quote
            THEN IF currentChar(l) = "\\"
                 THEN LET e == Lexer_advance(l)
                      IN  chars(Lexer_advance(e),
                                str \o Escaped(currentChar(e)))
                 ELSE chars(Lexer_advance(l), str \o currentChar(l))
            ELSE [lx |-> l, text |-> str]
        r == chars(Lexer_advance(lx), "")
        after == IF currentChar(r.lx) = quote THEN Lexer_advance(r.lx)
                 ELSE r.lx
    IN  [lx |-> after,
         token |-> Token("STRING", r.text, after.line, startCol)]

readIdentifierOrKeyword(lx) ==
    LET startCol == lx.column
        RECURSIVE chars(_, _)
        chars(l, identifier) ==
            IF currentChar(l) # NUL
               /\ (IsAlpha(currentChar(l)) \/ IsDigit(currentChar(l))
                   \/ currentChar(l) = "_")
            THEN chars(Lexer_advance(l), identifier \o currentChar(l))
            ELSE [lx |-> l, text |-> identifier]
        r == chars(lx, "")
    IN  [lx |-> r.lx,
         token |-> Token(IF r.text \in DOMAIN keywords THEN keywords[r.text]
                         ELSE "IDENTIFIER",
                         r.text, r.lx.line, startCol)]

readOperatorOrDelimiter(lx) ==
    LET startCol == lx.column
        ch == currentChar(lx)
        a == Lexer_advance(lx)
        b == Lexer_advance(a)
        One(type) == [lx |-> a, token |-> Token(type, ch, a.line, startCol)]
        Two(type) ==
            [lx |-> b, token |-> Token(type, ch \o currentChar(a),
                                       b.line, startCol)]
        \* '=', '!', '<', '>': a following '=' makes the longer operator
        WithEq(long, short) ==
            IF currentChar(a) = "=" THEN Two(long) ELSE One(short)
        \* '&', '|': doubled, or else break to the second advance()
        Doubled(type) ==
            IF currentChar(a) = ch THEN Two(type)
            ELSE [lx |-> b, token |-> Token("UNKNOWN", ch, b.line, startCol)]
    IN  CASE ch = "+" -> One("PLUS")
          [] ch = "-" -> One("MINUS")
          [] ch = "*" -> One("STAR")
          [] ch = "/" -> One("SLASH")
          [] ch = "%" -> One("PERCENT")
          [] ch = "=" -> WithEq("EQUAL", "ASSIGN")
          [] ch = "!" -> WithEq("NOT_EQUAL", "NOT")
          [] ch = "<" -> WithEq("LESS_EQUAL", "LESS")
          [] ch = ">" -> WithEq("GREATER_EQUAL", "GREATER")
          [] ch = "&" -> Doubled("AND")
          [] ch = "|" -> Doubled("OR")
          [] ch = "(" -> One("LPAREN")
          [] ch = ")" -> One("RPAREN")
          [] ch = "{" -> One("LBRACE")
          [] ch = "}" -> One("RBRACE")
          [] ch = "[" -> One("LBRACKET")
          [] ch = "]" -> One("RBRACKET")
          [] ch = ";" -> One("SEMICOLON")
          [] ch = "," -> One("COMMA")
          [] ch = "." -> One("DOT")
          [] ch = ":" -> One("COLON")
          [] OTHER -> One("UNKNOWN")

\* nextToken that returns NEWLINE without advance()
nextTokenKeepsNewline(lx) ==
    LET RECURSIVE comments(_)
        comments(l) ==
            IF currentChar(l) = "/"
               /\ (peekChar(l, 1) = "/" \/ peekChar(l, 1) = "*")
            THEN comments(skipWhitespace(skipComment(l)))
            ELSE l
        l0 == comments(skipWhitespace(lx))
        c == currentChar(l0)
    IN  CASE c = NUL ->
               [lx |-> l0,
                token |-> Token("END_OF_FILE", "", l0.line, l0.column)]
          [] c = "\n" ->
               [lx |-> l0, token |-> Token("NEWLINE", "\n", l0.line, l0.column)]
          [] IsDigit(c) -> readNumber(l0)
          [] c = "\"" \/ c = "'" -> readString(l0)
          [] IsAlpha(c) \/ c = "_" -> readIdentifierOrKeyword(l0)
          [] OTHER -> readOperatorOrDelimiter(l0)

nextToken(lx) ==
    LET RECURSIVE comments(_)
        comments(l) ==
            IF currentChar(l) = "/"
               /\ (peekChar(l, 1) = "/" \/ peekChar(l, 1) = "*")
            THEN comments(skipWhitespace(skipComment(l)))
            ELSE l
        l0 == comments(skipWhitespace(lx))
        c == currentChar(l0)
    IN  CASE c = NUL ->
               [lx |-> l0,
                token |-> Token("END_OF_FILE", "", l0.line, l0.column)]
          [] c = "\n" ->
               LET a == Lexer_advance(l0)
               IN  [lx |-> a,
                    token |-> Token("NEWLINE", "\n", a.line - 1, l0.column)]
          [] IsDigit(c) -> readNumber(l0)
          [] c = "\"" \/ c = "'" -> readString(l0)
          [] IsAlpha(c) \/ c = "_" -> readIdentifierOrKeyword(l0)
          [] OTHER -> readOperatorOrDelimiter(l0)

\* Lexer lexer(src); lexer.tokenize()
tokenize(src) ==
    LET RECURSIVE loop(_, _)
        loop(lx, pushed) ==
            LET r == nextToken(lx)
            IN  IF r.token.type = "END_OF_FILE" THEN Append(pushed, r.token)
                ELSE loop(r.lx, Append(pushed, r.token))
    IN  loop(Lexer(src), <<>>)

(***************************************************************************)
(* Parser (parser.cpp).  A Parser is the record of its fields.  A parse    *)
(* function returns the parser after it, the node it built and the         *)
(* message of the std::runtime_error it threw ("" when it returned).       *)
(* Then(r, Rest) is what follows a call: the exception goes on to the      *)
(* caller, a result goes to the rest of the function.                      *)
(***************************************************************************)
\* enum class TokenType, in the order of its declaration
TokenType ==
    <<"INTEGER", "FLOAT", "STRING", "IDENTIFIER", "TRUE_LIT", "FALSE_LIT",
      "ARRAY", "IF", "ELIF", "ELSE", "WHILE", "FOR", "RETURN", "PRINT", "INT",
      "FLOAT_KW", "BOOL", "VOID", "LET", "INPUT", "KEY_PRESSED", "SCREEN",
      "DRAW_PIXEL", "DRAW_RECT", "DRAW_LINE", "DRAW_CIRCLE", "CLEAR_SCREEN",
      "DISPLAY", "QUIT", "IS_KEY_DOWN", "UPDATE_INPUT", "PLUS", "MINUS",
      "STAR", "SLASH", "PERCENT", "ASSIGN", "EQUAL", "NOT_EQUAL", "LESS",
      "GREATER", "LESS_EQUAL", "GREATER_EQUAL", "AND", "OR", "NOT", "LPAREN",
      "RPAREN", "LBRACE", "RBRACE", "LBRACKET", "RBRACKET", "SEMICOLON",
      "COMMA", "DOT", "COLON", "NEWLINE", "END_OF_FILE", "UNKNOWN">>

Parser(toks) == [tokens |-> toks, current |-> 0]

Ok(p, node) == [p |-> p, node |-> node, exc |-> ""]
Throw(p, message) == [p |-> p, node |-> Null, exc |-> message]
Then(r, Rest(_)) == IF r.exc # "" THEN r ELSE Rest(r)

currentToken(p) ==
    IF p.current < Len(p.tokens) THEN p.tokens[p.current + 1]
    ELSE Token("END_OF_FILE", "", 0, 0)

peekToken(p, offset) ==
    IF p.current + offset < Len(p.tokens)
    THEN p.tokens[p.current + offset + 1]
    ELSE Token("END_OF_FILE", "", 0, 0)

Parser_advance(p) ==
    IF p.current < Len(p.tokens) THEN [p EXCEPT !.current = @ + 1] ELSE p

check(p, type) == currentToken(p).type = type

consume(p, type, message) ==
    IF ~check(p, type) THEN Throw(p, message) ELSE Ok(Parser_advance(p), Null)

isType(type) == type \in {"INT", "FLOAT_KW", "BOOL", "VOID", "IDENTIFIER"}

tokenTypeToString(p, type) ==
    CASE type = "INT" -> "int"
      [] type = "FLOAT_KW" -> "float"
      [] type = "BOOL" -> "bool"
      [] type = "VOID" -> "void"
      [] type = "IDENTIFIER" -> currentToken(p).value
      [] OTHER -> "unknown"

\* Call(name, p) is the call name(p) of a parse function from the body of
\* another: parseExpression, parseAssignment, parseUnary, parseStatement,
\* parseIfStatement and the seven functions of binary operators
RECURSIVE Call(_, _)
RECURSIVE parseArguments(_, _)

\* do { args.push_back(Call("parseAssignment", )); } while (match({COMMA}));
parseArguments(p, args) ==
    Then(Call("parseAssignment", p), LAMBDA e :
        IF check(e.p, "COMMA")
        THEN parseArguments(Parser_advance(e.p), Append(args, e.node))
        ELSE Ok(e.p, Append(args, e.node)))

parsePrimary(p) ==
    LET tok == currentToken(p)
        a == Parser_advance(p)
        b == Parser_advance(a)
        \* the built-in names that become a FunctionCall
        BuiltinCalls ==
            ("SCREEN" :> "screen") @@ ("CLEAR_SCREEN" :> "clearScreen")
            @@ ("DRAW_PIXEL" :> "drawPixel") @@ ("DRAW_RECT" :> "drawRect")
            @@ ("DRAW_LINE" :> "drawLine") @@ ("DRAW_CIRCLE" :> "drawCircle")
            @@ ("DISPLAY" :> "display") @@ ("QUIT" :> "quit")
            @@ ("IS_KEY_DOWN" :> "isKeyDown")
            @@ ("UPDATE_INPUT" :> "updateInput")
        \* (int)tok.type
        ordinal == (CHOOSE i \in 1..Len(TokenType) :
                        TokenType[i] = tok.type) - 1
        \* input, key_pressed: bare, with () or with (<expr>)
        WithPrompt(Make(_)) ==
            IF ~check(a, "LPAREN") THEN Ok(a, Make(Null))
            ELSE IF check(b, "RPAREN") THEN Ok(Parser_advance(b), Make(Null))
            ELSE Then(Call("parseExpression", b), LAMBDA e :
                 Then(consume(e.p, "RPAREN", "Expected ')'"), LAMBDA c :
                 Ok(c.p, Make(e.node))))
        \* screen, drawPixel, ...: bare or with an argument list
        WithArguments(name) ==
            IF ~check(a, "LPAREN") THEN Ok(a, FunctionCall(name, <<>>))
            ELSE Then(IF check(b, "RPAREN") THEN Ok(b, <<>>)
                      ELSE parseArguments(b, <<>>), LAMBDA args :
                 Then(consume(args.p, "RPAREN", "Expected ')'"), LAMBDA c :
                 Ok(c.p, FunctionCall(name, args.node))))
    IN  CASE tok.type = "TRUE_LIT" -> Ok(a, Literal("TRUE_LIT", "1"))
          [] tok.type = "FALSE_LIT" -> Ok(a, Literal("FALSE_LIT", "0"))
          [] tok.type \in {"INTEGER", "FLOAT", "STRING"} ->
               Ok(a, Literal(tok.type, tok.value))
          [] tok.type = "IDENTIFIER" -> Ok(a, Identifier(tok.value))
          [] tok.type = "INPUT" -> WithPrompt(InputCall)
          [] tok.type = "KEY_PRESSED" -> WithPrompt(KeyPressedCall)
          [] tok.type \in DOMAIN BuiltinCalls ->
               WithArguments(BuiltinCalls[tok.type])
          [] tok.type = "LPAREN" ->
               Then(Call("parseExpression", a), LAMBDA e :
               Then(consume(e.p, "RPAREN", "Expected ')'"), LAMBDA c :
               Ok(c.p, e.node)))
          [] OTHER ->
               Throw(p, "Unexpected token in expression: '" \o tok.value
                        \o "' (" \o to_string(ordinal) \o ")")

parsePostfix(p) ==
    LET RECURSIVE loop(_, _)
        loop(q, expr) ==
            IF check(q, "LPAREN")
            THEN Then(IF check(Parser_advance(q), "RPAREN")
                      THEN Ok(Parser_advance(q), <<>>)
                      ELSE parseArguments(Parser_advance(q), <<>>),
                      LAMBDA args :
                 Then(consume(args.p, "RPAREN",
                              "Expected ')' after arguments"), LAMBDA c :
                 IF expr.k = "Identifier"
                 THEN loop(c.p, FunctionCall(expr.name, args.node))
                 ELSE Throw(c.p, "Invalid function call")))
            ELSE IF check(q, "LBRACKET")
            THEN Then(Call("parseExpression", Parser_advance(q)), LAMBDA index :
                 Then(consume(index.p, "RBRACKET",
                              "Expected ']' after index"), LAMBDA c :
                 loop(c.p, ArrayAccess(expr, index.node))))
            ELSE Ok(q, expr)
    IN  Then(parsePrimary(p), LAMBDA e : loop(e.p, e.node))

parseUnary(p) ==
    IF check(p, "NOT") \/ check(p, "MINUS")
    THEN Then(Call("parseUnary", Parser_advance(p)), LAMBDA operand :
              Ok(operand.p, UnaryOp(currentToken(p).type, operand.node)))
    ELSE parsePostfix(p)

\* the levels with the operators of parseAdditive and parseMultiplicative
\* exchanged: + and - would bind tighter than * / %
LevelOpsExchanged(level) ==
    CASE level = "parseComma" -> {"COMMA"}
      [] level = "parseLogicalOr" -> {"OR"}
      [] level = "parseLogicalAnd" -> {"AND"}
      [] level = "parseEquality" -> {"EQUAL", "NOT_EQUAL"}
      [] level = "parseComparison" ->
           {"LESS", "LESS_EQUAL", "GREATER", "GREATER_EQUAL"}
      [] level = "parseAdditive" -> {"STAR", "SLASH", "PERCENT"}
      [] level = "parseMultiplicative" -> {"PLUS", "MINUS"}

\* the operators of a level of binary operators
LevelOps(level) ==
    CASE level = "parseComma" -> {"COMMA"}
      [] level = "parseLogicalOr" -> {"OR"}
      [] level = "parseLogicalAnd" -> {"AND"}
      [] level = "parseEquality" -> {"EQUAL", "NOT_EQUAL"}
      [] level = "parseComparison" ->
           {"LESS", "LESS_EQUAL", "GREATER", "GREATER_EQUAL"}
      [] level = "parseAdditive" -> {"PLUS", "MINUS"}
      [] level = "parseMultiplicative" -> {"STAR", "SLASH", "PERCENT"}

\* parseComma, parseLogicalOr, parseLogicalAnd, parseEquality,
\* parseComparison, parseAdditive, parseMultiplicative: a left-associative
\* chain of operands of the next level
parseBinaryLevel(level, p) ==
    LET \* the function that parses an operand of this level
        next == CASE level = "parseComma" -> "parseAssignment"
                  [] level = "parseLogicalOr" -> "parseLogicalAnd"
                  [] level = "parseLogicalAnd" -> "parseEquality"
                  [] level = "parseEquality" -> "parseComparison"
                  [] level = "parseComparison" -> "parseAdditive"
                  [] level = "parseAdditive" -> "parseMultiplicative"
                  [] level = "parseMultiplicative" -> "parseUnary"
        Operand(q) == Call(next, q)
        RECURSIVE loop(_, _)
        loop(q, left) ==
            IF currentToken(q).type \in LevelOps(level)
            THEN Then(Operand(Parser_advance(q)), LAMBDA right :
                      loop(right.p, BinaryOp(left, currentToken(q).type,
                                             right.node)))
            ELSE Ok(q, left)
    IN  Then(Operand(p), LAMBDA first : loop(first.p, first.node))

\* a parseAssignment that takes any expression as the target
parseAssignmentAnyTarget(p) ==
    Then(Call("parseLogicalOr", p), LAMBDA left :
        IF check(left.p, "ASSIGN")
        THEN Then(Call("parseAssignment", Parser_advance(left.p)),
                  LAMBDA value :
                  Ok(value.p,
                     Assignment(IF left.node.k = "Identifier"
                                THEN left.node.name ELSE "",
                                value.node)))
        ELSE left)

parseAssignment(p) ==
    Then(Call("parseLogicalOr", p), LAMBDA left :
        IF check(left.p, "ASSIGN")
        THEN IF left.node.k = "Identifier"
             THEN Then(Call("parseAssignment", Parser_advance(left.p)),
                       LAMBDA value :
                       Ok(value.p, Assignment(left.node.name, value.node)))
             ELSE Throw(Parser_advance(left.p), "Invalid assignment target")
        ELSE left)

parseExpression(p) == parseBinaryLevel("parseComma", p)

parseExpressionStatement(p) ==
    Then(Call("parseExpression", p), LAMBDA expr :
    Then(consume(expr.p, "SEMICOLON", "Expected ';' after expression"),
         LAMBDA c : Ok(c.p, ExpressionStatement(expr.node))))

parseBlockStatement(p) ==
    LET RECURSIVE newlines(_)
        newlines(q) ==
            IF check(q, "NEWLINE") THEN newlines(Parser_advance(q)) ELSE q
        RECURSIVE loop(_, _)
        loop(q, statements) ==
            IF check(q, "RBRACE") \/ check(q, "END_OF_FILE")
            THEN Then(consume(q, "RBRACE", "Expected '}'"), LAMBDA c :
                      Ok(c.p, BlockStatement(statements)))
            ELSE Then(Call("parseStatement", q), LAMBDA s :
                      loop(newlines(s.p), Append(statements, s.node)))
    IN  Then(consume(p, "LBRACE", "Expected '{'"), LAMBDA open :
             loop(newlines(open.p), <<>>))

parseReturnStatement(p) ==
    Then(consume(p, "RETURN", "Expected 'return'"), LAMBDA a :
    Then(IF check(a.p, "SEMICOLON") THEN Ok(a.p, Null)
         ELSE Call("parseExpression", a.p), LAMBDA expr :
    Then(consume(expr.p, "SEMICOLON", "Expected ';' after return"),
         LAMBDA c : Ok(c.p, ReturnStatement(expr.node)))))

parseIfStatement(p) ==
    IF ~(check(p, "IF") \/ check(p, "ELIF"))
    THEN Throw(p, "Expected 'if' or 'elif'")
    ELSE
    Then(consume(Parser_advance(p), "LPAREN", "Expected '(' after condition"),
         LAMBDA open :
    Then(Call("parseExpression", open.p), LAMBDA condition :
    Then(consume(condition.p, "RPAREN", "Expected ')' after condition"),
         LAMBDA close :
    Then(Call("parseStatement", close.p), LAMBDA thenBranch :
    Then(IF check(thenBranch.p, "ELIF") THEN Call("parseIfStatement", thenBranch.p)
         ELSE IF check(thenBranch.p, "ELSE")
              THEN Call("parseStatement", Parser_advance(thenBranch.p))
              ELSE Ok(thenBranch.p, Null), LAMBDA elseBranch :
    Ok(elseBranch.p,
       IfStatement(condition.node, thenBranch.node, elseBranch.node)))))))

parseWhileStatement(p) ==
    Then(consume(p, "WHILE", "Expected 'while'"), LAMBDA a :
    Then(consume(a.p, "LPAREN", "Expected '(' after 'while'"), LAMBDA open :
    Then(Call("parseExpression", open.p), LAMBDA condition :
    Then(consume(condition.p, "RPAREN", "Expected ')' after while condition"),
         LAMBDA close :
    Then(Call("parseStatement", close.p), LAMBDA body :
    Ok(body.p, WhileStatement(condition.node, body.node)))))))

\* a declaration up to, and without, its ';': "let name:type = expr" or
\* "type name [= expr]"; written out in parseVariableDeclaration and again
\* in the init clause of parseForStatement
parseDeclaration(p) ==
    LET n == Parser_advance(p)
    IN  IF check(p, "LET")
        THEN IF ~check(n, "IDENTIFIER")
             THEN Throw(n, "Expected variable name")
             ELSE
             Then(consume(Parser_advance(n), "COLON",
                          "Expected ':' after variable name"), LAMBDA colon :
             IF ~isType(currentToken(colon.p).type)
             THEN Throw(colon.p, "Expected type after ':'")
             ELSE
             Then(consume(Parser_advance(colon.p), "ASSIGN",
                          "Expected '=' after type"), LAMBDA assign :
             Then(Call("parseExpression", assign.p), LAMBDA initializer :
             Ok(initializer.p,
                VariableDecl(currentToken(n).value,
                             tokenTypeToString(colon.p,
                                               currentToken(colon.p).type),
                             initializer.node)))))
        ELSE IF ~isType(currentToken(p).type)
             THEN Throw(p, "Expected type for variable declaration")
             ELSE IF ~check(n, "IDENTIFIER")
             THEN Throw(n, "Expected variable name")
             ELSE
             Then(IF check(Parser_advance(n), "ASSIGN")
                  THEN Call("parseExpression", Parser_advance(Parser_advance(n)))
                  ELSE Ok(Parser_advance(n), Null), LAMBDA initializer :
             Ok(initializer.p,
                VariableDecl(currentToken(n).value,
                             tokenTypeToString(p, currentToken(p).type),
                             initializer.node)))

parseVariableDeclaration(p) ==
    Then(parseDeclaration(p), LAMBDA d :
    Then(consume(d.p, "SEMICOLON", "Expected ';' after variable declaration"),
         LAMBDA c : Ok(c.p, d.node)))

parsePrintStatement(p) ==
    Then(consume(p, "PRINT", "Expected 'print'"), LAMBDA a :
    Then(consume(a.p, "LPAREN", "Expected '(' after 'print'"), LAMBDA open :
    Then(Call("parseExpression", open.p), LAMBDA expr :
    Then(consume(expr.p, "RPAREN", "Expected ')'"), LAMBDA close :
    Then(consume(close.p, "SEMICOLON", "Expected ';' after print statement"),
         LAMBDA c : Ok(c.p, PrintStatement(expr.node)))))))

parseForStatement(p) ==
    Then(consume(p, "FOR", "Expected 'for'"), LAMBDA a :
    Then(consume(a.p, "LPAREN", "Expected '(' after 'for'"), LAMBDA open :
    Then(IF check(open.p, "SEMICOLON") THEN Ok(open.p, Null)
         ELSE IF check(open.p, "LET") \/ isType(currentToken(open.p).type)
              THEN parseDeclaration(open.p)
              ELSE parseExpressionStatement(open.p), LAMBDA init :
    Then(consume(init.p, "SEMICOLON", "Expected ';' after for-init"),
         LAMBDA s1 :
    Then(IF check(s1.p, "SEMICOLON") THEN Ok(s1.p, Null)
         ELSE Call("parseExpression", s1.p), LAMBDA condition :
    Then(consume(condition.p, "SEMICOLON",
                 "Expected ';' after for-condition"), LAMBDA s2 :
    Then(IF check(s2.p, "RPAREN") THEN Ok(s2.p, Null)
         ELSE Call("parseExpression", s2.p), LAMBDA increment :
    Then(consume(increment.p, "RPAREN", "Expected ')' after for clauses"),
         LAMBDA close :
    Then(Call("parseStatement", close.p), LAMBDA body :
    Ok(body.p, ForStatement(init.node, condition.node, increment.node,
                            body.node)))))))))))

parseStatement(p) ==
    LET looksLikeType ==
            IF currentToken(p).type = "IDENTIFIER"
            THEN peekToken(p, 1).type = "IDENTIFIER"
            ELSE isType(currentToken(p).type)
    IN  CASE check(p, "LBRACE") -> parseBlockStatement(p)
          [] check(p, "RETURN") -> parseReturnStatement(p)
          [] check(p, "IF") -> parseIfStatement(p)
          [] check(p, "WHILE") -> parseWhileStatement(p)
          [] check(p, "FOR") -> parseForStatement(p)
          [] looksLikeType \/ check(p, "LET") -> parseVariableDeclaration(p)
          [] check(p, "PRINT") -> parsePrintStatement(p)
          [] OTHER -> parseExpressionStatement(p)

Call(name, p) ==
    CASE name = "parseExpression" -> parseExpression(p)
      [] name = "parseAssignment" -> parseAssignment(p)
      [] name = "parseUnary" -> parseUnary(p)
      [] name = "parseStatement" -> parseStatement(p)
      [] name = "parseIfStatement" -> parseIfStatement(p)
      [] OTHER -> parseBinaryLevel(name, p)

parseFunction(p) ==
    LET typed == isType(currentToken(p).type)
                 /\ ~(currentToken(p).type = "IDENTIFIER"
                      /\ peekToken(p, 1).type = "LPAREN")
        returnType == IF typed
                      THEN tokenTypeToString(p, currentToken(p).type)
                      ELSE "void"
        n == IF typed THEN Parser_advance(p) ELSE p
        RECURSIVE parameters(_, _)
        parameters(q, params) ==
            LET q1 == Parser_advance(q)
                q2 == Parser_advance(q1)
                param == <<tokenTypeToString(q, currentToken(q).type),
                           currentToken(q1).value>>
            IN  IF ~check(q1, "IDENTIFIER")
                THEN Throw(q1, "Expected parameter name")
                ELSE IF check(q2, "COMMA")
                     THEN parameters(Parser_advance(q2), Append(params, param))
                     ELSE Ok(q2, Append(params, param))
    IN  IF ~check(n, "IDENTIFIER") THEN Throw(n, "Expected function name")
        ELSE
        Then(consume(Parser_advance(n), "LPAREN", "Expected '('"),
             LAMBDA open :
        Then(IF check(open.p, "RPAREN") THEN Ok(open.p, <<>>)
             ELSE parameters(open.p, <<>>), LAMBDA params :
        Then(consume(params.p, "RPAREN", "Expected ')'"), LAMBDA close :
        Then(parseBlockStatement(close.p), LAMBDA body :
        Ok(body.p, FunctionDecl(returnType, currentToken(n).value,
                                params.node, body.node))))))

\* Parser parser(toks); parser.parse()
parse(toks) ==
    LET RECURSIVE newlines(_)
        newlines(q) ==
            IF check(q, "NEWLINE") THEN newlines(Parser_advance(q)) ELSE q
        RECURSIVE loop(_, _)
        loop(p, functions) ==
            IF check(p, "END_OF_FILE") THEN Ok(p, Program(functions))
            ELSE Then(parseFunction(p), LAMBDA f :
                      loop(newlines(f.p), Append(functions, f.node)))
    IN  loop(newlines(Parser(toks)), <<>>)

(***************************************************************************)
(* IR (ir.h).                                                              *)
(***************************************************************************)
IRValue(type, name, id) == [type |-> type, name |-> name, id |-> id]

\* IRValue(): the default-constructed value, a TEMP with id -1
IRValueDefault == IRValue("TEMP", "", -1)

IRInstruction(opcode) ==
    [opcode |-> opcode, operands |-> <<>>, result |-> IRValueDefault,
     label |-> "", prompt |-> ""]

IRFunction(name, returnType, parameters) ==
    [name |-> name, returnType |-> returnType, parameters |-> parameters,
     instructions |-> <<>>]

\* IRValue::toString: the key of a value in the interpreter's temps map
toString(v) ==
    CASE v.type = "TEMP" -> "t" \o to_string(v.id)
      [] v.type = "GLOBAL" -> "g_" \o v.name
      [] v.type = "LOCAL" -> "l_" \o v.name
      [] v.type = "CONSTANT" -> v.name
      [] v.type = "LABEL" -> v.name
      [] OTHER -> "unknown"

(***************************************************************************)
(* IR generator (IRGenerator).  The generator state g holds the program    *)
(* built so far, the index of the current function (0 for nullptr), the    *)
(* two counters and the symbol table.                                      *)
(***************************************************************************)
IRGenerator ==
    [functions |-> <<>>, currentFunction |-> 0, tempCounter |-> 0,
     labelCounter |-> 0, symbolTable |-> EmptyMap]

emitInstruction(g, instr) ==
    IF g.currentFunction # 0
    THEN [g EXCEPT !.functions[g.currentFunction].instructions =
                        Append(@, instr)]
    ELSE g

createTemp(g) ==
    [g |-> [g EXCEPT !.tempCounter = @ + 1],
     val |-> IRValue("TEMP", "t" \o to_string(g.tempCounter), g.tempCounter)]

\* a createLabel that leaves labelCounter as it is
createLabelNoAdvance(g) ==
    [g |-> g, val |-> "L" \o to_string(g.labelCounter)]

createLabel(g) ==
    [g |-> [g EXCEPT !.labelCounter = @ + 1],
     val |-> "L" \o to_string(g.labelCounter)]

tokenTypeToOpCode(type) ==
    CASE type = "PLUS" -> "ADD"
      [] type = "MINUS" -> "SUB"
      [] type = "STAR" -> "MUL"
      [] type = "SLASH" -> "DIV"
      [] type = "PERCENT" -> "MOD"
      [] type = "AND" -> "AND"
      [] type = "OR" -> "OR"
      [] type = "COMMA" -> "CONCAT"
      [] type = "NOT" -> "NOT"
      [] type = "EQUAL" -> "EQ"
      [] type = "NOT_EQUAL" -> "NE"
      [] type = "LESS" -> "LT"
      [] type = "GREATER" -> "GT"
      [] type = "LESS_EQUAL" -> "LE"
      [] type = "GREATER_EQUAL" -> "GE"
      [] OTHER -> "NOP"

\* symbolTable[name] = val
SymbolTablePut(g, name, val) ==
    [g EXCEPT !.symbolTable =
        (name :> val) @@ g.symbolTable]

RECURSIVE visitExpression(_, _)
RECURSIVE visitArguments(_, _, _)
RECURSIVE visitStatement(_, _)
RECURSIVE visitStatements(_, _)

\* the loops "for (arg : call->arguments) operands.push_back(visitExpression(arg))"
visitArguments(arguments, g, operands) ==
    IF arguments = <<>> THEN [g |-> g, operands |-> operands]
    ELSE LET r == visitExpression(Head(arguments), g)
         IN  visitArguments(Tail(arguments), r.g, Append(operands, r.val))

visitBinaryOp(binOp, g) ==
    LET l == visitExpression(binOp.left, g)
        r == visitExpression(binOp.right, l.g)
        t == createTemp(r.g)
        opcode == IF binOp.op = "OR" \/ binOp.op = "COMMA"
                  THEN "CONCAT" ELSE tokenTypeToOpCode(binOp.op)
        instr == [IRInstruction(opcode) EXCEPT
                    !.operands = <<l.val, r.val>>, !.result = t.val]
    IN  [g |-> emitInstruction(t.g, instr), val |-> t.val]

visitUnaryOp(unaryOp, g) ==
    LET o == visitExpression(unaryOp.operand, g)
        t == createTemp(o.g)
        instr == [IRInstruction(tokenTypeToOpCode(unaryOp.op)) EXCEPT
                    !.operands = <<o.val>>, !.result = t.val]
    IN  [g |-> emitInstruction(t.g, instr), val |-> t.val]

visitLiteral(lit, g) ==
    LET val == IRValue("CONSTANT", lit.value, -1)
        loadOp == CASE lit.type = "INTEGER" -> "LOAD_INT"
                    [] lit.type = "FLOAT" -> "LOAD_FLOAT"
                    [] lit.type = "STRING" -> "LOAD_STRING"
                    [] OTHER -> "none"
        t == createTemp(g)
        instr == [IRInstruction(loadOp) EXCEPT
                    !.operands = <<val>>, !.result = t.val]
    IN  IF loadOp = "none" THEN [g |-> g, val |-> val]
        ELSE [g |-> emitInstruction(t.g, instr), val |-> t.val]

visitIdentifier(id, g) ==
    IF id.name \in DOMAIN g.symbolTable
    THEN [g |-> g, val |-> g.symbolTable[id.name]]
    ELSE LET var == IRValue("LOCAL", id.name, -1)
         IN  [g |-> SymbolTablePut(g, id.name, var), val |-> var]

GraphicsOpCode(name) ==
    CASE name = "screen" -> "SCREEN"
      [] name = "clearScreen" -> "CLEAR_SCREEN"
      [] name = "drawPixel" -> "DRAW_PIXEL"
      [] name = "drawRect" -> "DRAW_RECT"
      [] name = "drawLine" -> "DRAW_LINE"
      [] name = "drawCircle" -> "DRAW_CIRCLE"
      [] OTHER -> "none"

visitFunctionCall(call, g) ==
    LET t == createTemp(g)
        result == t.val
        all == visitArguments(call.arguments, t.g, <<>>)
        first == IF Len(call.arguments) > 0
                 THEN visitArguments(<<call.arguments[1]>>, t.g, <<>>)
                 ELSE [g |-> t.g, operands |-> <<>>]
        callInstr == [IRInstruction("CALL") EXCEPT
                        !.label = call.name, !.result = result]
    IN  CASE GraphicsOpCode(call.name) # "none" ->
              [g |-> emitInstruction(all.g,
                        [IRInstruction(GraphicsOpCode(call.name)) EXCEPT
                            !.operands = all.operands, !.result = result]),
               val |-> result]
          [] call.name = "display" ->
              [g |-> emitInstruction(t.g,
                        [IRInstruction("PRESENT") EXCEPT !.result = result]),
               val |-> result]
          [] call.name = "quit" \/ call.name = "updateInput" ->
              [g |-> emitInstruction(t.g, callInstr), val |-> result]
          [] call.name = "isKeyDown" ->
              [g |-> emitInstruction(first.g,
                        [callInstr EXCEPT !.operands = first.operands]),
               val |-> result]
          [] OTHER ->
              [g |-> emitInstruction(all.g,
                        [callInstr EXCEPT !.operands = all.operands]),
               val |-> result]

visitAssignment(assign, g) ==
    LET v == visitExpression(assign.valueExpr, g)
        var == IF assign.name \in DOMAIN v.g.symbolTable
               THEN v.g.symbolTable[assign.name]
               ELSE IRValue("LOCAL", assign.name, -1)
        g1 == IF assign.name \in DOMAIN v.g.symbolTable THEN v.g
              ELSE SymbolTablePut(v.g, assign.name, var)
        instr == [IRInstruction("STORE") EXCEPT
                    !.operands = <<v.val>>, !.result = var]
    IN  [g |-> emitInstruction(g1, instr), val |-> var]

visitArrayAccess(access, g) ==
    LET a == visitExpression(access.array, g)
        i == visitExpression(access.index, a.g)
        t == createTemp(i.g)
        instr == [IRInstruction("LOAD") EXCEPT
                    !.operands = <<a.val, i.val>>, !.result = t.val]
    IN  [g |-> emitInstruction(t.g, instr), val |-> t.val]

visitInputCall(inputCall, g) ==
    LET t == createTemp(g)
        p == inputCall.prompt
        prompt == IF p.k = "Literal" /\ p.type = "STRING" THEN p.value ELSE ""
        instr == [IRInstruction("INPUT") EXCEPT
                    !.prompt = prompt, !.result = t.val]
    IN  [g |-> emitInstruction(t.g, instr), val |-> t.val]

visitKeyPressedCall(call, g) ==
    LET t == createTemp(g)
        instr == [IRInstruction("KEY_PRESSED") EXCEPT !.result = t.val]
    IN  [g |-> emitInstruction(t.g, instr), val |-> t.val]

\* (the first arm never applies: g is always the generator's state.  Stating
\* it has g computed here, before the descent into the expression.)
visitExpression(expr, g) ==
    CASE g = Null -> [g |-> g, val |-> IRValueDefault]
      [] expr.k = "BinaryOp" -> visitBinaryOp(expr, g)
      [] expr.k = "UnaryOp" -> visitUnaryOp(expr, g)
      [] expr.k = "Literal" -> visitLiteral(expr, g)
      [] expr.k = "Identifier" -> visitIdentifier(expr, g)
      [] expr.k = "FunctionCall" -> visitFunctionCall(expr, g)
      [] expr.k = "Assignment" -> visitAssignment(expr, g)
      [] expr.k = "ArrayAccess" -> visitArrayAccess(expr, g)
      [] expr.k = "InputCall" -> visitInputCall(expr, g)
      [] expr.k = "KeyPressedCall" -> visitKeyPressedCall(expr, g)
      [] OTHER -> [g |-> g, val |-> IRValueDefault]

LabelInstr(label) == [IRInstruction("LABEL") EXCEPT !.label = label]

visitBlockStatement(block, g) == visitStatements(block.statements, g)

visitReturnStatement(ret, g) ==
    IF ret.expression # Null
    THEN LET v == visitExpression(ret.expression, g)
         IN  emitInstruction(v.g,
                [IRInstruction("RET") EXCEPT !.operands = <<v.val>>])
    ELSE emitInstruction(g, IRInstruction("RET"))

visitIfStatement(ifStmt, g) ==
    LET cond == visitExpression(ifStmt.condition, g)
        thenLabel == createLabel(cond.g)
        elseLabel == createLabel(thenLabel.g)
        endLabel == createLabel(elseLabel.g)
        jz == [IRInstruction("JZ") EXCEPT
                 !.operands = <<cond.val>>, !.label = elseLabel.val]
        g1 == emitInstruction(endLabel.g, jz)
        g2 == emitInstruction(g1, LabelInstr(thenLabel.val))
        g3 == visitStatement(ifStmt.thenBranch, g2)
        g4 == emitInstruction(g3,
                [IRInstruction("JMP") EXCEPT !.label = endLabel.val])
        g5 == emitInstruction(g4, LabelInstr(elseLabel.val))
        g6 == IF ifStmt.elseBranch # Null
              THEN visitStatement(ifStmt.elseBranch, g5) ELSE g5
    IN  emitInstruction(g6, LabelInstr(endLabel.val))

\* a while lowered without its back jump
visitWhileStatementOnce(whileStmt, g) ==
    LET loopLabel == createLabel(g)
        endLabel == createLabel(loopLabel.g)
        g1 == emitInstruction(endLabel.g, LabelInstr(loopLabel.val))
        cond == visitExpression(whileStmt.condition, g1)
        jz == [IRInstruction("JZ") EXCEPT
                 !.operands = <<cond.val>>, !.label = endLabel.val]
        g2 == emitInstruction(cond.g, jz)
        g3 == visitStatement(whileStmt.body, g2)
    IN  emitInstruction(g3, LabelInstr(endLabel.val))

visitWhileStatement(whileStmt, g) ==
    LET loopLabel == createLabel(g)
        endLabel == createLabel(loopLabel.g)
        g1 == emitInstruction(endLabel.g, LabelInstr(loopLabel.val))
        cond == visitExpression(whileStmt.condition, g1)
        jz == [IRInstruction("JZ") EXCEPT
                 !.operands = <<cond.val>>, !.label = endLabel.val]
        g2 == emitInstruction(cond.g, jz)
        g3 == visitStatement(whileStmt.body, g2)
        g4 == emitInstruction(g3,
                [IRInstruction("JMP") EXCEPT !.label = loopLabel.val])
    IN  emitInstruction(g4, LabelInstr(endLabel.val))

visitForStatement(forStmt, g) ==
    LET g0 == IF forStmt.init # Null
              THEN visitStatement(forStmt.init, g) ELSE g
        loopLabel == createLabel(g0)
        endLabel == createLabel(loopLabel.g)
        g1 == emitInstruction(endLabel.g, LabelInstr(loopLabel.val))
        cond == visitExpression(forStmt.condition, g1)
        jz == [IRInstruction("JZ") EXCEPT
                 !.operands = <<cond.val>>, !.label = endLabel.val]
        g2 == IF forStmt.condition # Null
              THEN emitInstruction(cond.g, jz) ELSE g1
        g3 == visitStatement(forStmt.body, g2)
        g4 == IF forStmt.increment # Null
              THEN visitExpression(forStmt.increment, g3).g ELSE g3
        g5 == emitInstruction(g4,
                [IRInstruction("JMP") EXCEPT !.label = loopLabel.val])
    IN  emitInstruction(g5, LabelInstr(endLabel.val))

visitVariableDecl(varDecl, g) ==
    LET var == IRValue("LOCAL", varDecl.name, -1)
        g1 == SymbolTablePut(g, varDecl.name, var)
        v == visitExpression(varDecl.initializer, g1)
        instr == [IRInstruction("STORE") EXCEPT
                    !.operands = <<v.val>>, !.result = var]
    IN  IF varDecl.initializer # Null
        THEN emitInstruction(v.g, instr) ELSE g1

visitExpressionStatement(exprStmt, g) ==
    visitExpression(exprStmt.expression, g).g

visitPrintStatement(printStmt, g) ==
    LET v == visitExpression(printStmt.expression, g)
    IN  emitInstruction(v.g,
            [IRInstruction("PRINT") EXCEPT !.operands = <<v.val>>])

\* (as in visitExpression, the first arm never applies)
visitStatement(stmt, g) ==
    CASE g = Null -> g
      [] stmt.k = "BlockStatement" -> visitBlockStatement(stmt, g)
      [] stmt.k = "ReturnStatement" -> visitReturnStatement(stmt, g)
      [] stmt.k = "IfStatement" -> visitIfStatement(stmt, g)
      [] stmt.k = "WhileStatement" -> visitWhileStatement(stmt, g)
      [] stmt.k = "ForStatement" -> visitForStatement(stmt, g)
      [] stmt.k = "VariableDecl" -> visitVariableDecl(stmt, g)
      [] stmt.k = "ExpressionStatement" -> visitExpressionStatement(stmt, g)
      [] stmt.k = "PrintStatement" -> visitPrintStatement(stmt, g)
      [] OTHER -> g

visitStatements(statements, g) ==
    IF statements = <<>> THEN g
    ELSE visitStatements(Tail(statements), visitStatement(Head(statements), g))

RECURSIVE AddParameters(_, _)
AddParameters(parameters, g) ==
    IF parameters = <<>> THEN g
    ELSE LET name == Head(parameters)[2]
         IN  AddParameters(Tail(parameters),
                SymbolTablePut(g, name, IRValue("LOCAL", name, -1)))

\* a visitFunction that leaves the symbol table of the function before
visitFunctionKeepsSymbols(func, g) ==
    LET irFunc == IRFunction(func.name, func.returnType, func.parameters)
        g1 == [g EXCEPT !.functions = Append(@, irFunc),
                        !.currentFunction = Len(g.functions) + 1,
                        !.tempCounter = 0]
    IN  visitStatement(func.body, AddParameters(func.parameters, g1))

visitFunction(func, g) ==
    LET irFunc == IRFunction(func.name, func.returnType, func.parameters)
        g1 == [g EXCEPT !.functions = Append(@, irFunc),
                        !.currentFunction = Len(g.functions) + 1,
                        !.symbolTable = EmptyMap,
                        !.tempCounter = 0]
    IN  visitStatement(func.body, AddParameters(func.parameters, g1))

RECURSIVE visitProgram(_, _)
visitProgram(functions, g) ==
    IF functions = <<>> THEN g
    ELSE visitProgram(Tail(functions), visitFunction(Head(functions), g))

\* IRGenerator(ast).generate(): the final generator state; its functions
\* field is the IRProgram
generate(program) == visitProgram(program.functions, IRGenerator)

(***************************************************************************)
(* Runtime values (main.cpp: using Value = std::variant<int, double,       *)
(* std::string, bool>).  A double is held in tenths: 15 stands for 1.5.    *)
(***************************************************************************)
IntV(i) == [t |-> "int", i |-> i]
DoubleV(d) == [t |-> "double", d |-> d]
StringV(s) == [t |-> "string", s |-> s]
BoolV(b) == [t |-> "bool", b |-> b]

INT_MAX == 2147483647
INT_MIN == -INT_MAX - 1

Abs(x) == IF x < 0 THEN -x ELSE x

\* C++ integer division and remainder truncate toward zero
TruncDiv(a, b) ==
    LET q == Abs(a) \div Abs(b)
    IN  IF (a < 0) # (b < 0) THEN -q ELSE q

TruncMod(a, b) == a - b * TruncDiv(a, b)

RECURSIVE SkipSpaces(_, _)
SkipSpaces(s, i) ==
    IF i <= Len(s) /\ IsSpace(CharAt(s, i)) THEN SkipSpaces(s, i + 1) ELSE i

\* the digits of s from position i on: value, position after them, and
\* whether the value left the range of int
RECURSIVE ReadDigits(_, _, _, _)
ReadDigits(s, i, acc, over) ==
    IF i <= Len(s) /\ IsDigit(CharAt(s, i))
    THEN LET d == DigitVal(CharAt(s, i))
             big == over \/ acc > 214748364 \/ (acc = 214748364 /\ d > 7)
         IN  ReadDigits(s, i + 1, IF big THEN acc ELSE acc * 10 + d, big)
    ELSE [val |-> acc, next |-> i, over |-> over]

\* std::stoi: leading white space, optional sign, digits; throws
\* invalid_argument without digits and out_of_range beyond int
stoi(s) ==
    LET i0 == SkipSpaces(s, 1)
        neg == i0 <= Len(s) /\ CharAt(s, i0) = "-"
        i1 == IF i0 <= Len(s) /\ CharAt(s, i0) \in {"-", "+"}
              THEN i0 + 1 ELSE i0
        r == ReadDigits(s, i1, 0, FALSE)
    IN  IF r.next = i1 THEN [exc |-> "stoi", val |-> 0]
        ELSE IF r.over THEN [exc |-> "stoi", val |-> 0]
        ELSE [exc |-> "", val |-> IF neg THEN -r.val ELSE r.val]

\* std::stod, to one fractional digit
stod(s) ==
    LET i0 == SkipSpaces(s, 1)
        neg == i0 <= Len(s) /\ CharAt(s, i0) = "-"
        i1 == IF i0 <= Len(s) /\ CharAt(s, i0) \in {"-", "+"}
              THEN i0 + 1 ELSE i0
        ip == ReadDigits(s, i1, 0, FALSE)
        dot == ip.next <= Len(s) /\ CharAt(s, ip.next) = "."
        fp == ReadDigits(s, ip.next + 1, 0, FALSE)
        frac == IF dot /\ fp.next > ip.next + 1
                THEN DigitVal(CharAt(s, ip.next + 1)) ELSE 0
        none == ip.next = i1 /\ ~(dot /\ fp.next > ip.next + 1)
        tenths == ip.val * 10 + frac
    IN  IF none THEN [exc |-> "stod", val |-> 0]
        ELSE [exc |-> "", val |-> IF neg THEN -tenths ELSE tenths]

\* operator<< of a double, and std::to_string(double)
DoubleToText(d) ==
    (IF d < 0 THEN "-" ELSE "") \o NatToString(Abs(d) \div 10) \o
    (IF Abs(d) % 10 = 0 THEN "" ELSE "." \o NatToString(Abs(d) % 10))

DoubleToString(d) ==
    (IF d < 0 THEN "-" ELSE "") \o NatToString(Abs(d) \div 10) \o "." \o
    NatToString(Abs(d) % 10) \o "00000"

\* the printable ASCII characters from ' ' (32) to '_' (95) and from 'a' (97)
AsciiLow == " !\"#$%&'()*+,-./0123456789:;<=>?@ABCDEFGHIJKLMNOPQRSTUVWXYZ[\\]^_"
AsciiHigh == "abcdefghijklmnopqrstuvwxyz{|}~"

CharCode(c) ==
    IF c = "\t" THEN 9
    ELSE IF c = "\n" THEN 10
    ELSE IF \E i \in 1..Len(AsciiLow) : CharAt(AsciiLow, i) = c
         THEN 31 + (CHOOSE i \in 1..Len(AsciiLow) : CharAt(AsciiLow, i) = c)
    ELSE 96 + (CHOOSE i \in 1..Len(AsciiHigh) : CharAt(AsciiHigh, i) = c)

\* std::string operator<
RECURSIVE StrLess(_, _)
StrLess(a, b) ==
    IF b = "" THEN FALSE
    ELSE IF a = "" THEN TRUE
    ELSE IF CharCode(Head(a)) # CharCode(Head(b))
         THEN CharCode(Head(a)) < CharCode(Head(b))
    ELSE StrLess(Tail(a), Tail(b))

(***************************************************************************)
(* Interpreter (interpretIR).                                              *)
(***************************************************************************)
\* temps[key]: std::map::operator[] inserts a default Value, the int 0
Touch(temps, key) ==
    IF key \in DOMAIN temps THEN temps
    ELSE temps @@ (key :> IntV(0))

Put(temps, key, val) ==
    (key :> val) @@ temps

\* the toInt lambda of ADD, SUB, MUL, DIV and MOD
\* a toInt that makes 0 of a string std::stoi rejects
toIntLenient(v) ==
    CASE v.t = "int" -> [exc |-> "", val |-> v.i]
      [] v.t = "double" -> [exc |-> "", val |-> TruncDiv(v.d, 10)]
      [] v.t = "string" ->
            IF stoi(v.s).exc = "" THEN stoi(v.s) ELSE [exc |-> "", val |-> 0]
      [] OTHER -> [exc |-> "Cannot convert to int", val |-> 0]

toInt(v) ==
    CASE v.t = "int" -> [exc |-> "", val |-> v.i]
      [] v.t = "double" -> [exc |-> "", val |-> TruncDiv(v.d, 10)]
      [] v.t = "string" -> stoi(v.s)
      [] OTHER -> [exc |-> "Cannot convert to int", val |-> 0]

\* the result of an int operation: "ub" marks signed overflow
IntResult(op, x, y) ==
    CASE op = "ADD" ->
            IF (y > 0 /\ x > INT_MAX - y) \/ (y < 0 /\ x < INT_MIN - y)
            THEN [exc |-> "ub", val |-> 0] ELSE [exc |-> "", val |-> x + y]
      [] op = "SUB" ->
            IF (y < 0 /\ x > INT_MAX + y) \/ (y > 0 /\ x < INT_MIN + y)
            THEN [exc |-> "ub", val |-> 0] ELSE [exc |-> "", val |-> x - y]
      [] op = "MUL" ->
            IF x # 0 /\ y # 0 /\
               (x = INT_MIN \/ y = INT_MIN \/ Abs(x) > INT_MAX \div Abs(y))
            THEN [exc |-> "ub", val |-> 0] ELSE [exc |-> "", val |-> x * y]
      [] op = "DIV" ->
            IF x = INT_MIN /\ y = -1
            THEN [exc |-> "ub", val |-> 0]
            ELSE [exc |-> "", val |-> TruncDiv(x, y)]
      [] OTHER ->
            IF x = INT_MIN /\ y = -1
            THEN [exc |-> "ub", val |-> 0]
            ELSE [exc |-> "", val |-> TruncMod(x, y)]

\* ADD, SUB, MUL: toInt(a) op toInt(b)
ArithOp(op, a, b) ==
    LET x == toInt(a)
        y == toInt(b)
    IN  IF x.exc # "" THEN x
        ELSE IF y.exc # "" THEN y
        ELSE IntResult(op, x.val, y.val)

\* DIV, MOD without the test of the divisor: a zero divisor yields 0
DivModOpUnchecked(op, a, b) ==
    LET divisor == toInt(b)
        x == toInt(a)
    IN  IF divisor.exc # "" THEN divisor
        ELSE IF divisor.val = 0 THEN [exc |-> "", val |-> 0]
        ELSE IF x.exc # "" THEN x
        ELSE IntResult(op, x.val, divisor.val)

\* DIV, MOD: the divisor is converted and tested first
DivModOp(op, a, b) ==
    LET divisor == toInt(b)
        x == toInt(a)
    IN  IF divisor.exc # "" THEN divisor
        ELSE IF divisor.val = 0 THEN [exc |-> "Division by zero", val |-> 0]
        ELSE IF x.exc # "" THEN x
        ELSE IntResult(op, x.val, divisor.val)

\* the std::visit lambdas of CONCAT
ConcatText(v) ==
    CASE v.t = "int" -> to_string(v.i)
      [] v.t = "double" -> DoubleToString(v.d)
      [] v.t = "bool" -> IF v.b THEN "true" ELSE "false"
      [] OTHER -> v.s

\* what PRINT writes
PrintText(v) ==
    CASE v.t = "int" -> to_string(v.i)
      [] v.t = "double" -> DoubleToText(v.d)
      [] v.t = "bool" -> IF v.b THEN "true" ELSE "false"
      [] OTHER -> v.s

Rel(op, x, y) ==
    CASE op = "LT" -> x < y
      [] op = "GT" -> x > y
      [] op = "LE" -> x <= y
      [] op = "GE" -> x >= y
      [] op = "EQ" -> x = y
      [] OTHER -> x # y

StrRel(op, x, y) ==
    CASE op = "LT" -> StrLess(x, y)
      [] op = "GT" -> StrLess(y, x)
      [] op = "LE" -> ~StrLess(y, x)
      [] op = "GE" -> ~StrLess(x, y)
      [] op = "EQ" -> x = y
      [] OTHER -> x # y

\* the std::visit lambdas of LT, GT, LE, GE, EQ and NE
CompareOp(op, a, b) ==
    LET num(v) == IF v.t = "int" THEN v.i * 10 ELSE v.d
        bit(p) == IF p THEN 1 ELSE 0
    IN  CASE a.t = "int" /\ b.t = "int" ->
                [exc |-> "", val |-> bit(Rel(op, a.i, b.i))]
          [] a.t \in {"int", "double"} /\ b.t \in {"int", "double"} ->
                [exc |-> "", val |-> bit(Rel(op, num(a), num(b)))]
          [] a.t = "string" /\ b.t = "string" ->
                [exc |-> "", val |-> bit(StrRel(op, a.s, b.s))]
          [] OTHER -> [exc |-> "Invalid types for " \o op, val |-> 0]

\* the first pass of interpretIR: labels[label] = index of the LABEL
RECURSIVE LabelScan(_, _, _)
LabelScan(instructions, i, labels) ==
    IF i > Len(instructions) THEN labels
    ELSE LabelScan(instructions, i + 1,
            IF instructions[i].opcode = "LABEL"
            THEN Put(labels, instructions[i].label, i - 1)
            ELSE labels)

ArithOps == {"ADD", "SUB", "MUL"}
DivOps == {"DIV", "MOD"}
CompareOps == {"LT", "GT", "LE", "GE", "EQ", "NE"}

\* operands a graphics handler asks for before it reads them
DrawOperands ==
    ("CLEAR_SCREEN" :> 3) @@ ("DRAW_PIXEL" :> 5) @@ ("DRAW_RECT" :> 8)
    @@ ("DRAW_LINE" :> 7) @@ ("DRAW_CIRCLE" :> 7)

\* key names CALL isKeyDown knows
KeyNames ==
    {"a", "d", "w", "s", "space", "left", "right", "up", "down", "escape"}

\* what the world outside decides during one instruction: whether a
\* Graphics can be constructed, and whether the key asked for is down
Env(constructs, keyDown) == [constructs |-> constructs, keyDown |-> keyDown]

\* Graphics::Graphics: a new object with its window open, referred to by its
\* place in objects (the constructor throws when env.constructs is false);
\* calls counts the drawing calls made on it and args holds the integers
\* handed to the last of them
Graphics == [alive |-> TRUE, open |-> TRUE, calls |-> 0, args |-> <<>>]

\* handleEvents that takes the SDL_QUIT from the queue and forgets it
handleEventsDropsQuit(r) == [r EXCEPT !.quitEvent = FALSE]

\* Graphics::handleEvents on the object g_graphics points to: an SDL_QUIT
\* taken from the event queue clears open
handleEvents(r) ==
    IF r.quitEvent
    THEN [r EXCEPT !.objects[r.g_graphics].open = FALSE, !.quitEvent = FALSE,
                   !.flagged = TRUE]
    ELSE r

\* delete g_graphics: ~Graphics closes the window and SDL_Quit() drops the
\* event queue; the pointer itself is left as it is
Graphics_delete(r) ==
    [r EXCEPT !.objects[r.g_graphics].alive = FALSE,
              !.objects[r.g_graphics].open = FALSE,
              !.quitEvent = FALSE]

\* temps[instr.operands[i].toString()] for the first n operands
RECURSIVE TouchOperands(_, _, _)
TouchOperands(temps, operands, n) ==
    IF n = 0 THEN temps
    ELSE Touch(TouchOperands(temps, operands, n - 1), toString(operands[n]))

\* operands an opcode's handler reads without testing operands.size()
OperandsRead(opcode) ==
    CASE opcode \in ArithOps \cup DivOps \cup CompareOps \cup {"CONCAT"} -> 2
      [] opcode \in {"LOAD_INT", "LOAD_FLOAT", "LOAD_STRING", "PRINT",
                     "JZ", "STORE"} -> 1
      [] OTHER -> 0

\* One turn of the while loop of interpretIR on instruction instr in run
\* state r.  The result is the new run state; exc is the what() of a thrown
\* exception and "ub" marks undefined behaviour.
Exec(instr, r) ==
    LET op == instr.opcode
        res == toString(instr.result)
        k0 == toString(instr.operands[1])
        k1 == toString(instr.operands[2])
        t0 == Touch(r.temps, k0)
        t01 == Touch(t0, k1)
        next == [r EXCEPT !.ip = @ + 1]
        throw(r1, what) == [r1 EXCEPT !.exc = what]
        store(r1, x) ==
            IF x.exc # "" THEN throw(r1, x.exc)
            ELSE [r1 EXCEPT !.temps = Put(@, res, IntV(x.val)), !.ip = @ + 1]
        jump == [r EXCEPT
                    !.labels = Touch(@, instr.label),
                    !.ip = IF instr.label \in DOMAIN r.labels
                           THEN r.labels[instr.label] ELSE 0]
        h == r.g_graphics
        \* g_graphics points to a deleted object
        dangling == h # 0 /\ ~r.objects[h].alive
        \* the toInt and toString lambdas of the SCREEN handler
        int(v) == CASE v.t = "int" -> v.i
                    [] v.t = "double" -> TruncDiv(v.d, 10)
                    [] v.t = "string" ->
                         IF stoi(v.s).exc = "" THEN stoi(v.s).val ELSE 0
                    [] OTHER -> 0
        text(v) == IF v.t = "bool" THEN "" ELSE ConcatText(v)
        \* the key name CALL isKeyDown makes of its argument
        keyStr(v) == CASE v.t = "string" -> v.s
                       [] v.t = "int" -> to_string(v.i)
                       [] v.t = "double" -> to_string(TruncDiv(v.d, 10))
                       [] OTHER -> ""
        one(r1, temps) == [r1 EXCEPT !.temps = Put(temps, res, IntV(1)),
                                     !.ip = @ + 1]
    IN  IF Len(instr.operands) < OperandsRead(op) THEN throw(r, "ub")
        ELSE
        CASE op = "LOAD_INT" ->
                store(r, stoi(instr.operands[1].name))
          [] op = "LOAD_FLOAT" ->
                LET v == stod(instr.operands[1].name)
                IN  IF v.exc # "" THEN throw(r, v.exc)
                    ELSE [next EXCEPT !.temps = Put(@, res, DoubleV(v.val))]
          [] op = "LOAD_STRING" ->
                [next EXCEPT
                    !.temps = Put(@, res, StringV(instr.operands[1].name))]
          [] op \in ArithOps ->
                store([r EXCEPT !.temps = t01], ArithOp(op, t01[k0], t01[k1]))
          [] op \in DivOps ->
                store([r EXCEPT !.temps = t01], DivModOp(op, t01[k0], t01[k1]))
          [] op = "CONCAT" ->
                [next EXCEPT !.temps = Put(t01, res,
                    StringV(ConcatText(t01[k0]) \o ConcatText(t01[k1])))]
          [] op = "PRINT" ->
                [next EXCEPT !.temps = t0,
                             !.out = Append(@, PrintText(t0[k0]))]
          [] op \in CompareOps ->
                store([r EXCEPT !.temps = t01],
                      CompareOp(op, t01[k0], t01[k1]))
          [] op = "JZ" ->
                IF t0[k0].t # "int"
                THEN throw([r EXCEPT !.temps = t0],
                           "std::get: wrong index for variant")
                ELSE IF t0[k0].i = 0 THEN [jump EXCEPT !.temps = t0]
                ELSE [next EXCEPT !.temps = t0]
          [] op = "JMP" -> jump
          [] op = "STORE" ->
                [next EXCEPT !.temps = Put(t0, res, t0[k0])]
          [] op = "SCREEN" ->
                IF Len(instr.operands) < 3 THEN one(r, r.temps)
                ELSE IF dangling THEN throw(r, "ub")
                ELSE
                LET t3 == TouchOperands(r.temps, instr.operands, 3)
                    width == int(t3[k0])
                    height == int(t3[k1])
                    title == text(t3[toString(instr.operands[3])])
                    deleted == IF h # 0 THEN Graphics_delete(r) ELSE r
                IN  IF r.env.constructs
                    THEN [one(deleted, t3) EXCEPT
                            !.objects = Append(@, Graphics),
                            !.g_graphics = Len(r.objects) + 1,
                            !.out = Append(@, "Graphics window created: "
                                        \o to_string(width) \o "x"
                                        \o to_string(height) \o " - "
                                        \o title)]
                    ELSE [one(deleted, t3) EXCEPT
                            !.cerr = Append(@,
                                        "Failed to create graphics window")]
          [] op \in DOMAIN DrawOperands ->
                IF h = 0 \/ Len(instr.operands) < DrawOperands[op] THEN next
                ELSE IF dangling THEN throw(r, "ub")
                ELSE LET tn == TouchOperands(r.temps, instr.operands,
                                             DrawOperands[op])
                     IN  [one(r, tn) EXCEPT
                            !.objects[h].calls = @ + 1,
                            !.objects[h].args =
                                [n \in 1..DrawOperands[op] |->
                                    int(tn[toString(instr.operands[n])])]]
          [] op = "PRESENT" ->
                IF h = 0 THEN one(r, r.temps)
                ELSE IF dangling THEN throw(r, "ub")
                ELSE LET polled == handleEvents(r)
                     IN  IF ~polled.objects[h].open
                         THEN [Graphics_delete(polled) EXCEPT
                                  !.g_graphics = 0, !.ip = r.size,
                                  !.closed = r.fi, !.flagged = FALSE]
                         ELSE one(polled, r.temps)
          [] op = "CALL" /\ instr.label = "quit" ->
                IF h = 0 THEN throw(r, "exit")
                ELSE IF dangling THEN throw(r, "ub")
                ELSE throw([Graphics_delete(handleEvents(r)) EXCEPT
                               !.g_graphics = 0], "exit")
          [] op = "CALL" /\ instr.label = "isKeyDown" ->
                IF h = 0 \/ Len(instr.operands) = 0
                THEN [next EXCEPT !.temps = Put(@, res, IntV(0))]
                ELSE IF keyStr(t0[k0]) \notin KeyNames
                THEN [next EXCEPT !.temps = Put(t0, res, IntV(0))]
                ELSE IF dangling THEN throw(r, "ub")
                ELSE IF r.env.keyDown
                THEN [one(r, t0) EXCEPT
                        !.out = Append(@, "Key detected: " \o keyStr(t0[k0]))]
                ELSE [next EXCEPT !.temps = Put(t0, res, IntV(0))]
          [] op = "CALL" /\ instr.label = "updateInput" ->
                IF h = 0 THEN one(r, r.temps)
                ELSE IF dangling THEN throw(r, "ub")
                ELSE one(handleEvents(r), r.temps)
          [] OTHER -> next

\* main(): catch (const std::exception& e) prints "Error: <what>", returns 1
mainCatch(what) == [code |-> 1, err |-> "Error: " \o what]

(***************************************************************************)
(* The driver: main() of main.cpp, one action per pipeline step, and one   *)
(* action per turn of the interpreter's loops.                             *)
(***************************************************************************)
NoOutcome == [code |-> -1, err |-> ""]

\* The run state of interpretIR: fi, ip, size, temps, labels are the loop's
\* variables; out and cerr are what was written; g_graphics is the global
\* pointer (0 for nullptr, else a place in objects); objects are the Graphics
\* objects constructed so far; quitEvent says an SDL_QUIT waits in the event
\* queue.  trace, flagged (a handleEvents call has cleared open and no
\* PRESENT has left the loop since) and closed (the function whose loop a
\* PRESENT left, 0 for none) record what has happened.
RtInit ==
    [fi |-> 0, ip |-> 0, size |-> 0, temps |-> EmptyMap, labels |-> EmptyMap,
     out |-> <<>>, cerr |-> <<>>, exc |-> "", trace |-> <<>>,
     g_graphics |-> 0, objects |-> <<>>, quitEvent |-> FALSE,
     flagged |-> FALSE, closed |-> 0, env |-> Env(TRUE, FALSE)]

SemaInit ==
    [runs |-> 0, program |-> Null, reported |-> <<>>, before |-> FALSE,
     scopes |-> <<>>, trace |-> <<>>]

\* Lexer lexer(source); auto tokens = lexer.tokenize();
Tokenize ==
    /\ stage = "lex"
    /\ tokens' = tokenize(source)
    /\ stage' = "parse"
    /\ UNCHANGED <<source, ast, gen, rt, outcome, errors, sema, drawn, lexer, calls>>

\* Parser parser(tokens); auto program = parser.parse();
Parse ==
    /\ stage = "parse"
    /\ LET r == parse(tokens)
       IN  IF r.exc = ""
           THEN /\ ast' = r.node
                /\ stage' = "generate"
                /\ outcome' = outcome
           ELSE /\ ast' = ast
                /\ stage' = "done"
                /\ outcome' = mainCatch(r.exc)
    /\ UNCHANGED <<source, tokens, gen, rt, errors, sema, drawn, lexer, calls>>

\* IRGenerator irgen(program); auto ir = irgen.generate();
Generate ==
    /\ stage = "generate"
    /\ gen' = generate(ast)
    /\ stage' = "interpret"
    /\ UNCHANGED <<source, tokens, ast, rt, outcome, errors, sema, drawn, lexer, calls>>

\* the instructions of the function interpretIR is executing
Instructions == gen.functions[rt.fi].instructions

\* the instruction at ip
Current == Instructions[rt.ip + 1]

\* the functions interpretIR has not reached yet, whatever their names
FunctionsAfter(fi) == (fi + 1)..Len(gen.functions)

\* the functions named main that interpretIR has not reached yet
MainsAfter(fi) ==
    {j \in (fi + 1)..Len(gen.functions) : gen.functions[j].name = "main"}

\* for (const auto& func : ir.functions) if (func.name == "main") ...: enter
\* the next function named main, or return from interpretIR and from main()
NextFunction ==
    /\ stage = "interpret"
    /\ (IF rt.fi = 0 THEN TRUE ELSE rt.ip >= Len(Instructions))
    /\ IF MainsAfter(rt.fi) = {}
       THEN /\ stage' = "done"
            /\ outcome' = [code |-> 0, err |-> ""]
            /\ rt' = rt
       ELSE LET j == CHOOSE m \in MainsAfter(rt.fi) :
                        \A n \in MainsAfter(rt.fi) : m <= n
            IN  /\ rt' = [rt EXCEPT
                            !.fi = j, !.ip = 0, !.temps = EmptyMap,
                            !.size = Len(gen.functions[j].instructions),
                            !.labels = LabelScan(gen.functions[j].instructions,
                                                 1, EmptyMap)]
                /\ UNCHANGED <<stage, outcome>>
    /\ UNCHANGED <<source, tokens, ast, gen, errors, sema, drawn, lexer, calls>>

\* what a conditional jump reads (Null for the other instructions): kept
\* with the executed ip in the trace of the run
CondRead(instr, temps) ==
    IF instr.opcode = "JZ" /\ Len(instr.operands) > 0
    THEN LET key == toString(instr.operands[1])
         IN  Touch(temps, key)[key]
    ELSE Null

\* what the world outside may decide during an instruction
Envs(instr) ==
    CASE instr.opcode = "SCREEN" -> {Env(c, FALSE) : c \in BOOLEAN}
      [] instr.opcode = "CALL" /\ instr.label = "isKeyDown" ->
            {Env(TRUE, k) : k \in BOOLEAN}
      [] OTHER -> {Env(TRUE, FALSE)}

\* the user closes the window: an SDL_QUIT event waits in the event queue
WindowClosed ==
    /\ stage = "interpret"
    /\ rt.g_graphics # 0
    /\ rt.objects[rt.g_graphics].alive
    /\ ~rt.quitEvent
    /\ rt' = [rt EXCEPT !.quitEvent = TRUE]
    /\ UNCHANGED <<stage, source, tokens, ast, gen, outcome, errors, sema,
                   drawn, lexer, calls>>

\* one turn of while (ip < func.instructions.size())
Step ==
    /\ stage = "interpret"
    /\ rt.fi # 0
    /\ rt.ip < Len(Instructions)
    /\ Len(rt.trace) < MaxSteps
    /\ \E env \in Envs(Current) :
         LET r == Exec(Current, [rt EXCEPT !.env = env])
             entry == [fi |-> rt.fi, ip |-> rt.ip,
                       cond |-> CondRead(Current, rt.temps)]
         IN  /\ rt' = [r EXCEPT !.trace = Append(@, entry),
                                !.env = Env(TRUE, FALSE)]
             /\ stage' = CASE r.exc = "" -> "interpret"
                           [] r.exc = "ub" -> "ub"
                           [] OTHER -> "done"
             /\ outcome' = CASE r.exc \in {"", "ub"} -> outcome
                             [] r.exc = "exit" -> [code |-> 0, err |-> ""]
                             [] OTHER -> mainCatch(r.exc)
    /\ UNCHANGED <<source, tokens, ast, gen, errors, sema, drawn, lexer, calls>>

(***************************************************************************)
(* Programs run by the interpreter: int main() { int x = n; S; print(..) } *)
(***************************************************************************)
IntLit(n) == Literal("INTEGER", to_string(n))
X == Identifier("x")
Atoms == {IntLit(n) : n \in 0..MaxLit} \cup {X}

Conds ==
    Atoms
    \cup {BinaryOp(X, op, IntLit(n)) :
            op \in {"LESS", "EQUAL", "GREATER"}, n \in 0..MaxLit}
    \cup {Literal("TRUE_LIT", "1"), Literal("FALSE_LIT", "0"),
          Literal("FLOAT", "1.5"), Literal("STRING", "a"),
          BinaryOp(IntLit(1), "AND", IntLit(1)), UnaryOp("NOT", IntLit(0))}

PrintLit(n) == PrintStatement(IntLit(n))
Increment == ExpressionStatement(Assignment("x", BinaryOp(X, "PLUS", IntLit(1))))

IfElses ==
    {IfStatement(c, BlockStatement(<<PrintLit(1)>>),
                    BlockStatement(<<PrintLit(2)>>)) : c \in Conds}
IfReturns ==
    {IfStatement(c, BlockStatement(<<ReturnStatement(IntLit(1))>>), Null) :
        c \in Conds}
Returns == {ReturnStatement(X), ReturnStatement(Null)}
Whiles ==
    {WhileStatement(c, BlockStatement(<<PrintStatement(X), Increment>>)) :
        c \in Conds}
NestedWhiles ==
    {WhileStatement(BinaryOp(X, "LESS", IntLit(n)),
        BlockStatement(<<IfStatement(BinaryOp(X, "EQUAL", IntLit(m)),
                                     PrintLit(1), PrintLit(2)),
                         Increment>>)) : n \in 0..MaxLit, m \in 0..MaxLit}
Divisors == Atoms \cup {Literal("FLOAT", "0.5"), Literal("STRING", "0")}
Divisions ==
    {PrintStatement(BinaryOp(a, op, b)) :
        a \in Atoms, op \in {"SLASH", "PERCENT"}, b \in Divisors}

TestStatements ==
    IfElses \cup IfReturns \cup Returns \cup Whiles \cup NestedWhiles
    \cup Divisions

MainOf(statements) ==
    Program(<<FunctionDecl("int", "main", <<>>, BlockStatement(statements))>>)

RunPrograms ==
    {MainOf(<<VariableDecl("x", "int", IntLit(n)), s,
              PrintStatement(Literal("STRING", "end"))>>) :
        n \in 0..MaxLit, s \in TestStatements}

InitRun ==
    /\ stage = "generate"
    /\ source = ""
    /\ tokens = <<>>
    /\ ast \in RunPrograms
    /\ gen = IRGenerator
    /\ rt = RtInit
    /\ outcome = NoOutcome
    /\ errors = FALSE
    /\ sema = SemaInit
    /\ lexer = Null
    /\ calls = 0
    /\ drawn = Null

NextRun == Generate \/ NextFunction \/ Step

SpecRun == InitRun /\ [][NextRun]_vars

(***************************************************************************)
(* Reading the trace of a run.                                             *)
(***************************************************************************)
Running == rt.fi # 0
InstrAt(ip) == Instructions[ip + 1]
Executed(p) == InstrAt(rt.trace[p].ip)
Positions == 1..Len(rt.trace)
Ips == 0..(Len(Instructions) - 1)
IsJump(instr) == instr.opcode \in {"JMP", "JZ", "JNZ"}
IsInt(v) == v # Null /\ v.t = "int"
IsZero(v) == v # Null /\ ((v.t = "int" /\ v.i = 0) \/ (v.t = "double" /\ v.d = 0))
IsNonZero(v) ==
    v # Null /\ ((v.t = "int" /\ v.i # 0) \/ (v.t = "double" /\ v.d # 0))

\* the JZ of an if: it is followed by the then label, which no jump names
IsIfJZ(j) ==
    /\ InstrAt(j).opcode = "JZ"
    /\ j + 1 \in Ips
    /\ InstrAt(j + 1).opcode = "LABEL"
    /\ \A i \in Ips : IsJump(InstrAt(i)) => InstrAt(i).label # InstrAt(j + 1).label

\* the JZ of a while
IsWhileJZ(j) == InstrAt(j).opcode = "JZ" /\ ~IsIfJZ(j)

\* index of the LABEL a jump at j names
Target(j) == rt.labels[InstrAt(j).label]

\* for the JZ of an if at j: the else label and the end label
ElseIdx(j) == Target(j)
EndIdx(j) == Target(ElseIdx(j) - 1)

\* the run took the instruction after trace position p, or is over
Decided(p) == p < Len(rt.trace) \/ stage = "done"

\* the trace positions after the test at p that belong to that test: up to
\* the next arrival at ip stop
Segment(p, stop) ==
    {q \in Positions :
        q > p /\ \A m \in (p + 1)..(q - 1) : rt.trace[m].ip # stop}

ThenExecuted(p) ==
    LET j == rt.trace[p].ip
    IN  \E q \in Segment(p, EndIdx(j)) :
            rt.trace[q].ip \in (j + 1)..(ElseIdx(j) - 1)

ElseExecuted(p) ==
    LET j == rt.trace[p].ip
    IN  \E q \in Segment(p, EndIdx(j)) :
            rt.trace[q].ip \in ElseIdx(j)..(EndIdx(j) - 1)

(***************************************************************************)
(* C1: once main has executed a RET, it executes no further instruction:   *)
(* an executed RET is the last entry of the trace.                         *)
(***************************************************************************)
C1_RetStopsMain ==
    Running =>
        \A p \in Positions :
            Executed(p).opcode = "RET" => p = Len(rt.trace)

(***************************************************************************)
(* C2: at every executed test of an if, the then branch is executed iff    *)
(* the condition value is non-zero, the else branch iff it is zero, and    *)
(* exactly one of the two is executed.                                     *)
(***************************************************************************)
C2_IfTakesExactlyOneBranch ==
    Running =>
        \A p \in Positions :
            (IsIfJZ(rt.trace[p].ip) /\ Decided(p)) =>
                /\ ThenExecuted(p) <=> IsNonZero(rt.trace[p].cond)
                /\ ElseExecuted(p) <=> IsZero(rt.trace[p].cond)
                /\ ~(ThenExecuted(p) /\ ElseExecuted(p))
                /\ ThenExecuted(p) \/ ElseExecuted(p)

(***************************************************************************)
(* C3: a DIV or MOD whose second operand converts to the integer 0 ends    *)
(* the run with "Error: Division by zero" and exit code 1, writes neither  *)
(* the result slot nor stdout, and is the last instruction executed.       *)
(***************************************************************************)
AtDivisionByZero ==
    /\ stage = "interpret"
    /\ Running
    /\ rt.ip < Len(Instructions)
    /\ Len(rt.trace) < MaxSteps
    /\ Current.opcode \in DivOps
    /\ Len(Current.operands) >= 2
    /\ LET key == toString(Current.operands[2])
       IN  toInt(Touch(rt.temps, key)[key]) = [exc |-> "", val |-> 0]

SlotOf(temps, key) == IF key \in DOMAIN temps THEN temps[key] ELSE Null

C3_DivisionByZeroAborts ==
    [][AtDivisionByZero =>
        /\ stage' = "done"
        /\ outcome' = [code |-> 1, err |-> "Error: Division by zero"]
        /\ SlotOf(rt'.temps, toString(Current.result))
              = SlotOf(rt.temps, toString(Current.result))
        /\ rt'.out = rt.out
        /\ rt'.ip = rt.ip]_vars

C3_Witness ==
    /\ stage = "done"
    /\ outcome = [code |-> 1, err |-> "Error: Division by zero"]
    /\ Running
    /\ rt.trace # <<>>
    /\ Executed(Len(rt.trace)).opcode \in DivOps
    /\ toString(Executed(Len(rt.trace)).result) \notin DOMAIN rt.temps

(***************************************************************************)
(* C5: a while is lowered to LABEL loop, the condition code, JZ to the     *)
(* end label, the body, JMP loop, LABEL end, in that order.  A test that   *)
(* reads the integer 0 continues at LABEL end and the body is not entered  *)
(* again; a test that reads a non-zero integer enters the body, which is   *)
(* entered only by such a test and whose back jump returns to LABEL loop.  *)
(* int x = 0; while (x < 3) { print(x); x = x + 1; } prints 0, 1, 2.       *)
(***************************************************************************)
ValueOpCodes ==
    {"LOAD_INT", "LOAD_FLOAT", "LOAD_STRING", "ADD", "SUB", "MUL", "DIV",
     "MOD", "CONCAT", "AND", "OR", "NOT", "NEG"} \cup CompareOps

\* for the JZ of a while at j: LABEL end, the back jump, LABEL loop
WhileEnd(j) == Target(j)
WhileBack(j) == WhileEnd(j) - 1
WhileLoop(j) == Target(WhileBack(j))
WhileBody(j) == (j + 1)..(WhileBack(j) - 1)

WhileShape(j) ==
    /\ InstrAt(j).label \in DOMAIN rt.labels
    /\ WhileBack(j) > j
    /\ InstrAt(WhileEnd(j)) = LabelInstr(InstrAt(j).label)
    /\ InstrAt(WhileBack(j)).opcode = "JMP"
    /\ InstrAt(WhileBack(j)).label \in DOMAIN rt.labels
    /\ WhileLoop(j) < j
    /\ InstrAt(WhileLoop(j)) = LabelInstr(InstrAt(WhileBack(j)).label)
    /\ \A i \in (WhileLoop(j) + 1)..(j - 1) :
            InstrAt(i).opcode \in ValueOpCodes
    /\ WhileLoop(j) + 1 < j => InstrAt(j).operands = <<InstrAt(j - 1).result>>

WhileRuns(p) ==
    LET j == rt.trace[p].ip
        c == rt.trace[p].cond
    IN  /\ (c.i = 0 /\ p < Len(rt.trace)) =>
              /\ rt.trace[p + 1].ip = WhileEnd(j)
              /\ \A q \in Positions :
                    (q > p /\ rt.trace[q].ip \in WhileBody(j)) =>
                        \E m \in (p + 1)..(q - 1) : rt.trace[m].ip = j
        /\ (c.i # 0 /\ p < Len(rt.trace)) => rt.trace[p + 1].ip = j + 1

\* the body and LABEL loop are entered in one way only
WhileEntries(j) ==
    \A q \in Positions :
        /\ (rt.trace[q].ip = j + 1) =>
              /\ q > 1
              /\ rt.trace[q - 1].ip = j
              /\ IsNonZero(rt.trace[q - 1].cond)
        /\ (rt.trace[q].ip = WhileBack(j) /\ q < Len(rt.trace)) =>
              rt.trace[q + 1].ip = WhileLoop(j)

TestStatement == ast.functions[1].body.statements[2]
InitialX == ast.functions[1].body.statements[1].initializer

CountTo3 ==
    /\ InitialX = IntLit(0)
    /\ TestStatement =
          WhileStatement(BinaryOp(X, "LESS", IntLit(3)),
                         BlockStatement(<<PrintStatement(X), Increment>>))

C5_WhileLowersAndRuns ==
    Running =>
        /\ \A j \in Ips : IsWhileJZ(j) => (WhileShape(j) /\ WhileEntries(j))
        /\ TestStatement.k = "WhileStatement" =>
              (InstrAt(2).opcode = "LABEL"
                  /\ \E j \in Ips : IsWhileJZ(j) /\ WhileLoop(j) = 2)
        /\ \A p \in Positions :
              (IsWhileJZ(rt.trace[p].ip) /\ IsInt(rt.trace[p].cond)) =>
                  WhileRuns(p)
        /\ (CountTo3 /\ stage = "done") =>
              (rt.out = <<"0", "1", "2", "end">> /\ outcome.code = 0)

C5_Witness ==
    /\ Running
    /\ CountTo3
    /\ stage = "done"
    /\ rt.out = <<"0", "1", "2", "end">>
    /\ \E p \in Positions :
          IsWhileJZ(rt.trace[p].ip) /\ rt.trace[p].cond = IntV(0)
    /\ \E p \in Positions :
          IsWhileJZ(rt.trace[p].ip) /\ rt.trace[p].cond = IntV(1)

(***************************************************************************)
(* Programs handed to the IR generator alone: a helper function and main,  *)
(* with nested control flow and calls.                                     *)
(***************************************************************************)
XLess1 == BinaryOp(X, "LESS", IntLit(1))
I == Identifier("i")

IfElse12 ==
    IfStatement(XLess1, BlockStatement(<<PrintLit(1)>>),
                        BlockStatement(<<PrintLit(2)>>))
While1 == WhileStatement(XLess1, BlockStatement(<<Increment>>))
For2 ==
    ForStatement(VariableDecl("i", "int", IntLit(0)),
                 BinaryOp(I, "LESS", IntLit(2)),
                 Assignment("i", BinaryOp(I, "PLUS", IntLit(1))),
                 BlockStatement(<<PrintStatement(I)>>))

GenStatements ==
    {IfElse12,
     IfStatement(X, BlockStatement(<<PrintLit(1)>>), Null),
     While1,
     For2,
     WhileStatement(X, BlockStatement(<<IfElse12, Increment>>)),
     IfStatement(X, BlockStatement(<<While1>>), BlockStatement(<<For2>>)),
     ExpressionStatement(FunctionCall("foo", <<IntLit(1)>>)),
     VariableDecl("y", "int",
        FunctionCall("foo", <<BinaryOp(X, "PLUS", IntLit(2))>>)),
     PrintStatement(BinaryOp(IntLit(1), "PLUS", BinaryOp(IntLit(2), "STAR", X))),
     ReturnStatement(X)}

GenPrograms ==
    {Program(<<FunctionDecl("int", "foo", <<<<"int", "x">>>>,
                            BlockStatement(<<s1, ReturnStatement(X)>>)),
               FunctionDecl("int", "main", <<>>,
                            BlockStatement(<<VariableDecl("x", "int", IntLit(0)),
                                             s2, s3>>))>>) :
        s1 \in GenStatements, s2 \in GenStatements, s3 \in GenStatements}

InitGen ==
    /\ stage = "generate"
    /\ source = ""
    /\ tokens = <<>>
    /\ ast \in GenPrograms
    /\ gen = IRGenerator
    /\ rt = RtInit
    /\ outcome = NoOutcome
    /\ errors = FALSE
    /\ sema = SemaInit
    /\ lexer = Null
    /\ calls = 0
    /\ drawn = Null

NextGen == Generate

SpecGen == InitGen /\ [][NextGen]_vars

Generated == stage # "generate"
FunctionIds == 1..Len(gen.functions)
InstructionsOf(f) == gen.functions[f].instructions

\* the places of function f that hold LABEL name
LabelPlaces(f, name) ==
    {i \in 1..Len(InstructionsOf(f)) :
        InstructionsOf(f)[i].opcode = "LABEL" /\ InstructionsOf(f)[i].label = name}

\* the places of function f that hold a jump
JumpPlaces(f) ==
    {i \in 1..Len(InstructionsOf(f)) : IsJump(InstructionsOf(f)[i])}

(***************************************************************************)
(* C6: every JMP, JZ or JNZ the generator emits names a label that exactly *)
(* one LABEL instruction of the same function carries, and the label       *)
(* prescan of the interpreter resolves the jump to that instruction.       *)
(***************************************************************************)
Resolves(f, name) ==
    LET labels == LabelScan(InstructionsOf(f), 1, EmptyMap)
    IN  /\ name \in DOMAIN labels
        /\ LabelPlaces(f, name) = {labels[name] + 1}

C6_JumpTargetsUnique ==
    Generated =>
        \A f \in FunctionIds :
            \A i \in JumpPlaces(f) :
                /\ Cardinality(LabelPlaces(f, InstructionsOf(f)[i].label)) = 1
                /\ Resolves(f, InstructionsOf(f)[i].label)

C6_Witness ==
    /\ Generated
    /\ \A f \in FunctionIds : Cardinality(JumpPlaces(f)) >= 4
    /\ \A f \in FunctionIds :
          \A i \in JumpPlaces(f) : Resolves(f, InstructionsOf(f)[i].label)

\* the ids of the result temporaries of a function, in emission order
RECURSIVE ResultIds(_)
ResultIds(instructions) ==
    IF instructions = <<>> THEN <<>>
    ELSE LET r == Head(instructions).result
         IN  (IF r.type = "TEMP" /\ r.id >= 0 THEN <<r.id>> ELSE <<>>)
             \o ResultIds(Tail(instructions))

(***************************************************************************)
(* C7: in every function the ids of the result temporaries are 0..n-1,     *)
(* each the result of one instruction, ascending along the instruction     *)
(* list (calls with arguments included), starting again at 0 per function. *)
(***************************************************************************)
C7_TempsNumberedInOrder ==
    Generated =>
        \A f \in FunctionIds :
            LET ids == ResultIds(InstructionsOf(f))
            IN  \A n \in 1..Len(ids) : ids[n] = n - 1

\* the names of the labels that function f defines
LabelNames(f) ==
    {InstructionsOf(f)[i].label :
        i \in {j \in 1..Len(InstructionsOf(f)) :
                    InstructionsOf(f)[j].opcode = "LABEL"}}

\* the ids of the temporaries that function f writes
TempIds(f) ==
    LET ids == ResultIds(InstructionsOf(f))
    IN  {ids[n] : n \in 1..Len(ids)}

\* the number of labels the functions before f define
RECURSIVE LabelsBefore(_)
LabelsBefore(f) ==
    IF f = 1 THEN 0
    ELSE LabelsBefore(f - 1) + Cardinality(LabelNames(f - 1))

\* the names function f gives to symbolTable: its parameters and the locals
\* its instructions read or write
LocalNames(f) ==
    LET instrs == InstructionsOf(f)
        params == gen.functions[f].parameters
    IN  {params[n][2] : n \in 1..Len(params)}
        \cup {instrs[i].result.name :
                i \in {j \in 1..Len(instrs) : instrs[j].result.type = "LOCAL"}}
        \cup UNION {{instrs[i].operands[n].name :
                        n \in {m \in 1..Len(instrs[i].operands) :
                                  instrs[i].operands[m].type = "LOCAL"}} :
                    i \in 1..Len(instrs)}

\* the table left by the last function holds names of that function only
SymbolsOfLastFunctionOnly ==
    DOMAIN gen.symbolTable \subseteq LocalNames(Len(gen.functions))

Symbol(name, type, isFunction) ==
    [name |-> name, type |-> type, isFunction |-> isFunction]

\* state of a SemanticAnalyzer once analyze() has made globalScope
SemanticAnalyzer(flag) ==
    [scopes |-> <<EmptyMap>>, reported |-> <<>>, errors |-> flag,
     currentFunctionReturnType |-> "void", trace |-> <<>>]

reportError(a, message) ==
    [a EXCEPT !.reported = Append(@, message), !.errors = TRUE]

\* a declare that reports the duplicate and then stores the new symbol
declareOverwrites(a, name, symbol) ==
    LET top == Len(a.scopes)
    IN  IF name \in DOMAIN a.scopes[top]
        THEN [reportError(a,
                "Symbol '" \o name \o "' already declared in current scope")
              EXCEPT !.scopes[top] = (name :> symbol) @@ @]
        ELSE [a EXCEPT !.scopes[top] = (name :> symbol) @@ @]

\* currentScope->declare(name, symbol) inside its try/catch
declare(a, name, symbol) ==
    LET top == Len(a.scopes)
    IN  IF name \in DOMAIN a.scopes[top]
        THEN reportError(a,
                "Symbol '" \o name \o "' already declared in current scope")
        ELSE [a EXCEPT !.scopes[top] = (name :> symbol) @@ @]

\* Scope::lookup from scope number n towards the global scope
RECURSIVE lookup(_, _, _)
lookup(scopes, n, name) ==
    IF n = 0 THEN Null
    ELSE IF name \in DOMAIN scopes[n] THEN scopes[n][name]
    ELSE lookup(scopes, n - 1, name)

enterScope(a) ==
    [a EXCEPT !.scopes = Append(@, EmptyMap),
              !.trace = Append(@, [op |-> "enter", depth |-> Len(a.scopes) + 1,
                                   deleted |-> Null])]

\* an exitScope that leaves currentScope where it is
exitScopeStays(a) ==
    [a EXCEPT !.trace = Append(@, [op |-> "exit", depth |-> Len(a.scopes),
                                   deleted |-> Null])]

exitScope(a) ==
    IF Len(a.scopes) > 1
    THEN [a EXCEPT !.scopes = SubSeq(@, 1, Len(@) - 1),
                   !.trace = Append(@, [op |-> "exit",
                                        depth |-> Len(a.scopes) - 1,
                                        deleted |-> a.scopes[Len(a.scopes)]])]
    ELSE [a EXCEPT !.trace = Append(@, [op |-> "exit", depth |-> Len(a.scopes),
                                        deleted |-> Null])]

isCompatibleType(from, to) ==
    \/ from = to
    \/ (from \in {"int", "float"} /\ to \in {"int", "float"})
    \/ (from \in {"int", "string"} /\ to \in {"int", "string"})
    \/ (from \in {"bool", "int"} /\ to \in {"bool", "int"})

getCommonType(type1, type2) ==
    IF type1 = type2 THEN type1
    ELSE IF type1 = "float" \/ type2 = "float" THEN "float"
    ELSE type1

RECURSIVE analyzeExpression(_, _)
RECURSIVE analyzeArguments(_, _)
RECURSIVE analyzeStatement(_, _)
RECURSIVE analyzeStatements(_, _)

analyzeBinaryOp(binOp, a) ==
    LET l == analyzeExpression(binOp.left, a)
        r == analyzeExpression(binOp.right, l.a)
        type ==
            CASE binOp.op \in {"PLUS", "MINUS", "STAR", "SLASH", "PERCENT"} ->
                    getCommonType(l.type, r.type)
              [] binOp.op \in {"EQUAL", "NOT_EQUAL", "LESS", "GREATER",
                               "LESS_EQUAL", "GREATER_EQUAL"} -> "int"
              [] binOp.op \in {"AND", "OR"} -> "int"
              [] binOp.op = "COMMA" -> r.type
              [] OTHER -> "void"
    IN  [a |-> r.a, type |-> type]

analyzeUnaryOp(unaryOp, a) ==
    LET o == analyzeExpression(unaryOp.operand, a)
    IN  [a |-> o.a,
         type |-> IF unaryOp.op \in {"MINUS", "NOT"} THEN o.type ELSE "void"]

analyzeLiteral(lit) ==
    CASE lit.type = "INTEGER" -> "int"
      [] lit.type = "FLOAT" -> "float"
      [] lit.type = "STRING" -> "string"
      [] OTHER -> "void"

analyzeIdentifier(id, a) ==
    LET symbol == lookup(a.scopes, Len(a.scopes), id.name)
    IN  IF symbol = Null
        THEN [a |-> reportError(a, "Undefined identifier: " \o id.name),
              type |-> "void"]
        ELSE [a |-> a, type |-> symbol.type]

\* the loop "for (arg : call->arguments) analyzeExpression(arg)"
analyzeArguments(arguments, a) ==
    IF arguments = <<>> THEN a
    ELSE analyzeArguments(Tail(arguments),
            analyzeExpression(Head(arguments), a).a)

analyzeFunctionCall(call, a) ==
    LET symbol == lookup(a.scopes, Len(a.scopes), call.name)
    IN  IF symbol = Null
        THEN [a |-> reportError(a, "Undefined function: " \o call.name),
              type |-> "void"]
        ELSE IF ~symbol.isFunction
        THEN [a |-> reportError(a, "'" \o call.name \o "' is not a function"),
              type |-> "void"]
        ELSE [a |-> analyzeArguments(call.arguments, a), type |-> symbol.type]

analyzeAssignment(assign, a) ==
    LET symbol == lookup(a.scopes, Len(a.scopes), assign.name)
        v == analyzeExpression(assign.valueExpr, a)
    IN  IF symbol = Null
        THEN [a |-> reportError(a, "Undefined variable: " \o assign.name),
              type |-> "void"]
        ELSE [a |-> IF isCompatibleType(v.type, symbol.type) THEN v.a
                    ELSE reportError(v.a,
                            "Assignment type mismatch: '" \o assign.name
                            \o "' expects " \o symbol.type \o ", got " \o v.type),
              type |-> symbol.type]

analyzeArrayAccess(access, a) ==
    LET array == analyzeExpression(access.array, a)
        index == analyzeExpression(access.index, array.a)
    IN  [a |-> index.a, type |-> array.type]

\* (the first arm never applies: a is always the analyzer's state.  Stating
\* it has a computed here, before the descent into the expression.)
analyzeExpression(expr, a) ==
    CASE a = Null -> [a |-> a, type |-> "void"]
      [] expr.k = "BinaryOp" -> analyzeBinaryOp(expr, a)
      [] expr.k = "UnaryOp" -> analyzeUnaryOp(expr, a)
      [] expr.k = "Literal" -> [a |-> a, type |-> analyzeLiteral(expr)]
      [] expr.k = "Identifier" -> analyzeIdentifier(expr, a)
      [] expr.k = "FunctionCall" -> analyzeFunctionCall(expr, a)
      [] expr.k = "Assignment" -> analyzeAssignment(expr, a)
      [] expr.k = "ArrayAccess" -> analyzeArrayAccess(expr, a)
      [] OTHER -> [a |-> a, type |-> "void"]

analyzeBlockStatement(block, a) == analyzeStatements(block.statements, a)

analyzeReturnStatement(ret, a) ==
    IF ret.expression = Null THEN a
    ELSE LET e == analyzeExpression(ret.expression, a)
         IN  IF isCompatibleType(e.type, a.currentFunctionReturnType) THEN e.a
             ELSE reportError(e.a,
                    "Return type mismatch: expected "
                    \o a.currentFunctionReturnType \o ", got " \o e.type)

analyzeIfStatement(ifStmt, a) ==
    LET a1 == analyzeExpression(ifStmt.condition, a).a
        a2 == analyzeStatement(ifStmt.thenBranch, a1)
    IN  IF ifStmt.elseBranch # Null
        THEN analyzeStatement(ifStmt.elseBranch, a2) ELSE a2

analyzeWhileStatement(whileStmt, a) ==
    analyzeStatement(whileStmt.body,
        analyzeExpression(whileStmt.condition, a).a)

\* an analyzeForStatement that stays in the scope of its caller
analyzeForStatementNoScope(forStmt, a) ==
    LET a0 == a
        a1 == IF forStmt.init # Null
              THEN analyzeStatement(forStmt.init, a0) ELSE a0
        a2 == IF forStmt.condition # Null
              THEN analyzeExpression(forStmt.condition, a1).a ELSE a1
        a3 == IF forStmt.increment # Null
              THEN analyzeExpression(forStmt.increment, a2).a ELSE a2
    IN  analyzeStatement(forStmt.body, a3)

analyzeForStatement(forStmt, a) ==
    LET a0 == enterScope(a)
        a1 == IF forStmt.init # Null
              THEN analyzeStatement(forStmt.init, a0) ELSE a0
        a2 == IF forStmt.condition # Null
              THEN analyzeExpression(forStmt.condition, a1).a ELSE a1
        a3 == IF forStmt.increment # Null
              THEN analyzeExpression(forStmt.increment, a2).a ELSE a2
    IN  exitScope(analyzeStatement(forStmt.body, a3))

analyzeVariableDecl(varDecl, a) ==
    LET e == analyzeExpression(varDecl.initializer, a)
        a1 == IF varDecl.initializer = Null THEN a
              ELSE IF isCompatibleType(e.type, varDecl.type) THEN e.a
              ELSE reportError(e.a,
                      "Variable initialization type mismatch: expected "
                      \o varDecl.type \o ", got " \o e.type)
    IN  declare(a1, varDecl.name, Symbol(varDecl.name, varDecl.type, FALSE))

analyzeExpressionStatement(exprStmt, a) ==
    analyzeExpression(exprStmt.expression, a).a

\* (as in analyzeExpression, the first arm never applies)
analyzeStatement(stmt, a) ==
    CASE a = Null -> a
      [] stmt.k = "BlockStatement" -> analyzeBlockStatement(stmt, a)
      [] stmt.k = "ReturnStatement" -> analyzeReturnStatement(stmt, a)
      [] stmt.k = "IfStatement" -> analyzeIfStatement(stmt, a)
      [] stmt.k = "WhileStatement" -> analyzeWhileStatement(stmt, a)
      [] stmt.k = "ForStatement" -> analyzeForStatement(stmt, a)
      [] stmt.k = "VariableDecl" -> analyzeVariableDecl(stmt, a)
      [] stmt.k = "ExpressionStatement" -> analyzeExpressionStatement(stmt, a)
      [] OTHER -> a

analyzeStatements(statements, a) ==
    IF statements = <<>> THEN a
    ELSE analyzeStatements(Tail(statements),
            analyzeStatement(Head(statements), a))

\* analyzeFunction: the loop over func->parameters
RECURSIVE DeclareParameters(_, _)
DeclareParameters(parameters, a) ==
    IF parameters = <<>> THEN a
    ELSE LET param == Head(parameters)
         IN  DeclareParameters(Tail(parameters),
                declare(a, param[2], Symbol(param[2], param[1], FALSE)))

analyzeFunction(func, a) ==
    LET a0 == enterScope(
                [a EXCEPT !.currentFunctionReturnType = func.returnType])
        a1 == DeclareParameters(func.parameters, a0)
    IN  exitScope(analyzeStatement(func.body, a1))

\* analyzeProgram, first pass: the function symbols
RECURSIVE DeclareFunctions(_, _)
DeclareFunctions(functions, a) ==
    IF functions = <<>> THEN a
    ELSE LET func == Head(functions)
         IN  DeclareFunctions(Tail(functions),
                declare(a, func.name, Symbol(func.name, func.returnType, TRUE)))

\* analyzeProgram, second pass: the function bodies
RECURSIVE AnalyzeFunctions(_, _)
AnalyzeFunctions(functions, a) ==
    IF functions = <<>> THEN a
    ELSE AnalyzeFunctions(Tail(functions), analyzeFunction(Head(functions), a))

analyzeProgram(program, a) ==
    IF program = Null THEN a
    ELSE AnalyzeFunctions(program.functions,
            DeclareFunctions(program.functions, a))

\* SemanticAnalyzer(ast).analyze() in a process whose static flag is flag
analyze(program, flag) == analyzeProgram(program, SemanticAnalyzer(flag))

(***************************************************************************)
(* A process that builds one SemanticAnalyzer after the other and runs     *)
(* analyze() on each (as the test driver of the analyzer does).            *)
(***************************************************************************)
Y == Identifier("y")
Foo ==
    FunctionDecl("int", "foo", <<<<"int", "a">>>>,
                 BlockStatement(<<ReturnStatement(Identifier("a"))>>))

\* expressions that mention y, which no program declares
UsesOfY ==
    {Y,
     BinaryOp(Y, "PLUS", IntLit(1)),
     UnaryOp("MINUS", Y),
     FunctionCall("foo", <<Y>>),
     FunctionCall("bar", <<Y>>),
     Assignment("y", IntLit(1)),
     Assignment("x", Y),
     ArrayAccess(Y, IntLit(0)),
     ArrayAccess(X, Y)}

\* expressions over declared names only
CleanExpressions ==
    {X, IntLit(1), BinaryOp(X, "PLUS", IntLit(1)),
     FunctionCall("foo", <<X>>), Assignment("x", IntLit(1))}

\* the statements in which an expression can stand
StatementsWith(e) ==
    {ReturnStatement(e),
     IfStatement(e, BlockStatement(<<>>), Null),
     WhileStatement(e, BlockStatement(<<>>)),
     ForStatement(Null, e, Null, BlockStatement(<<>>)),
     VariableDecl("z", "int", e),
     ExpressionStatement(e),
     PrintStatement(e),
     BlockStatement(<<ExpressionStatement(e)>>)}

\* testVariableScopeLocalVsGlobal: { int x = 5; } return x;
BlockScopeProgram ==
    MainOf(<<BlockStatement(<<VariableDecl("x", "int", IntLit(5))>>),
             ReturnStatement(X)>>)

\* testBasicVariableDeclaration: int x = 5; return x;
BasicProgram == MainOf(<<VariableDecl("x", "int", IntLit(5)), ReturnStatement(X)>>)

\* for (int i = 0; i < 2; i = i + 1) { print(i); } return i;
ForScopeProgram == MainOf(<<For2, ReturnStatement(I)>>)

\* int foo(int a) { return a; } int main() { int x = 0; <statements> }
AfterX(statements) ==
    Program(<<Foo,
              FunctionDecl("int", "main", <<>>,
                 BlockStatement(<<VariableDecl("x", "int", IntLit(0))>>
                                \o statements))>>)

\* calls whose callee is declared nowhere (bar) or is the variable x, with
\* the undeclared y among the arguments
UnresolvedCalls ==
    {FunctionCall("bar", <<Y>>),
     FunctionCall("bar", <<X, Y>>),
     FunctionCall("x", <<Y>>),
     FunctionCall("x", <<BinaryOp(Y, "PLUS", IntLit(1)), X>>)}

\* the statements whose expression analyzeStatement hands to
\* analyzeExpression (print is not among them)
AnalysedStatementsWith(e) == StatementsWith(e) \ {PrintStatement(e)}

CallPrograms ==
    {AfterX(<<s>>) :
        s \in UNION {AnalysedStatementsWith(c) : c \in UnresolvedCalls}}

\* for (int <v> = 0; <v> < 2; <v> = <v> + 1) { <body> }
ForOver(v, body) ==
    ForStatement(VariableDecl(v, "int", IntLit(0)),
                 BinaryOp(Identifier(v), "LESS", IntLit(2)),
                 Assignment(v, BinaryOp(Identifier(v), "PLUS", IntLit(1))),
                 BlockStatement(body))

\* the loops drawn: the variable of the header is i or, as the variable of
\* main, x; the body reads it, declares j and reads j, or declares x anew
ForBodies(v) ==
    {<<>>,
     <<ExpressionStatement(Assignment("x", Identifier(v)))>>,
     <<VariableDecl("j", "int", Identifier(v)),
       ExpressionStatement(Assignment("x", Identifier("j")))>>,
     <<IfStatement(Identifier(v),
            BlockStatement(<<VariableDecl("j", "int", IntLit(1))>>), Null),
       ReturnStatement(Identifier("j"))>>}

ForLoops ==
    UNION {{ForOver(v, body) : body \in ForBodies(v)} : v \in {"i", "x"}}
    \cup {ForOver("i", <<VariableDecl("x", "int", IntLit(5)),
                         ReturnStatement(X)>>)}

\* what follows the loop: nothing, a use of x, or a use of a loop name
ForPrograms ==
    {AfterX(<<loop>> \o rest) :
        loop \in ForLoops,
        rest \in {<<>>, <<ReturnStatement(X)>>,
                  <<ReturnStatement(I)>>,
                  <<ExpressionStatement(Assignment("x", Identifier("j")))>>}}

\* int main() { int x = 0; <tail> }
MainAfterX(tail) ==
    FunctionDecl("int", "main", <<>>,
        BlockStatement(<<VariableDecl("x", "int", IntLit(0))>> \o tail))

\* what follows a declaration: nothing, or a read of the undeclared y
DeclTails == {<<>>, <<ReturnStatement(Y)>>}

\* A declaration of name in a program: scope tells where it lands (0 the
\* global scope, k the scope of the k-th function), first is the symbol the
\* name had there before and inner the symbol declared; again tells whether
\* the name was already in that very scope.
DeclCases ==
    UNION {
        {[program |-> Program(<<Foo,
                                FunctionDecl("float", "foo", <<>>,
                                             BlockStatement(tail)),
                                MainAfterX(tail)>>),
          name |-> "foo", scope |-> 0, again |-> TRUE, tail |-> tail,
          first |-> Symbol("foo", "int", TRUE),
          inner |-> Symbol("foo", "float", TRUE)],
         [program |-> Program(<<FunctionDecl("int", "f",
                                    <<<<"int", "a">>, <<"float", "a">>>>,
                                    BlockStatement(tail)),
                                MainAfterX(tail)>>),
          name |-> "a", scope |-> 1, again |-> TRUE, tail |-> tail,
          first |-> Symbol("a", "int", FALSE),
          inner |-> Symbol("a", "float", FALSE)],
         [program |-> Program(<<FunctionDecl("int", "f", <<<<"int", "a">>>>,
                                    BlockStatement(
                                        <<VariableDecl("a", "float", IntLit(1))>>
                                        \o tail)),
                                MainAfterX(tail)>>),
          name |-> "a", scope |-> 1, again |-> TRUE, tail |-> tail,
          first |-> Symbol("a", "int", FALSE),
          inner |-> Symbol("a", "float", FALSE)],
         [program |-> Program(<<Foo,
                                MainAfterX(
                                    <<VariableDecl("x", "float", IntLit(1))>>
                                    \o tail)>>),
          name |-> "x", scope |-> 2, again |-> TRUE, tail |-> tail,
          first |-> Symbol("x", "int", FALSE),
          inner |-> Symbol("x", "float", FALSE)],
         [program |-> Program(<<Foo,
                                MainAfterX(
                                    <<VariableDecl("foo", "float", IntLit(1))>>
                                    \o tail)>>),
          name |-> "foo", scope |-> 2, again |-> FALSE, tail |-> tail,
          first |-> Symbol("foo", "int", TRUE),
          inner |-> Symbol("foo", "float", FALSE)],
         [program |-> Program(<<Foo,
                                FunctionDecl("int", "main",
                                    <<<<"float", "foo">>>>,
                                    BlockStatement(tail))>>),
          name |-> "foo", scope |-> 2, again |-> FALSE, tail |-> tail,
          first |-> Symbol("foo", "int", TRUE),
          inner |-> Symbol("foo", "float", FALSE)]} :
        tail \in DeclTails}

DeclPrograms == {c.program : c \in DeclCases}

\* the literals as parsePrimary builds them, each with the type its kind
\* names
TypedLiterals ==
    {<<"int", IntLit(1)>>,
     <<"float", Literal("FLOAT", "1.5")>>,
     <<"string", Literal("STRING", "a")>>,
     <<"bool", Literal("TRUE_LIT", "1")>>,
     <<"bool", Literal("FALSE_LIT", "0")>>}

\* <type> v = <literal>;  and  return <literal>; in a function of that type
LiteralDecl(tl) == MainOf(<<VariableDecl("v", tl[1], tl[2])>>)
LiteralReturn(tl) ==
    Program(<<FunctionDecl(tl[1], "f", <<>>,
                           BlockStatement(<<ReturnStatement(tl[2])>>))>>)

LiteralPrograms ==
    {LiteralDecl(tl) : tl \in TypedLiterals}
    \cup {LiteralReturn(tl) : tl \in TypedLiterals}

SemaPrograms ==
    {Program(<<Foo,
               FunctionDecl("int", "main", <<>>,
                  BlockStatement(<<VariableDecl("x", "int", IntLit(0)), s>>))>>) :
        s \in UNION {StatementsWith(e) : e \in UsesOfY \cup CleanExpressions}}
    \cup {BlockScopeProgram, BasicProgram, ForScopeProgram}
    \cup CallPrograms
    \cup ForPrograms
    \cup DeclPrograms
    \cup LiteralPrograms

Analyze ==
    /\ stage = "analyze"
    /\ sema.runs < MaxRuns
    /\ \E program \in SemaPrograms :
          LET a == analyze(program, errors)
          IN  /\ ast' = program
              /\ errors' = a.errors
              /\ sema' = [runs |-> sema.runs + 1, program |-> program,
                          reported |-> a.reported, before |-> errors,
                          scopes |-> a.scopes, trace |-> a.trace]
    /\ UNCHANGED <<stage, source, tokens, gen, rt, outcome, drawn, lexer, calls>>

InitSema ==
    /\ stage = "analyze"
    /\ source = ""
    /\ tokens = <<>>
    /\ ast = Null
    /\ gen = IRGenerator
    /\ rt = RtInit
    /\ outcome = NoOutcome
    /\ errors = FALSE
    /\ sema = SemaInit
    /\ lexer = Null
    /\ calls = 0
    /\ drawn = Null

NextSema == Analyze

SpecSema == InitSema /\ [][NextSema]_vars

\* SemanticAnalyzer::hasErrors
hasErrors == errors

RECURSIVE Mentions(_, _)
RECURSIVE MentionsAny(_, _)
\* the program text below node names the variable name
Mentions(node, name) ==
    CASE node.k = "Identifier" -> node.name = name
      [] node.k = "Assignment" ->
            node.name = name \/ Mentions(node.valueExpr, name)
      [] node.k = "BinaryOp" ->
            Mentions(node.left, name) \/ Mentions(node.right, name)
      [] node.k = "UnaryOp" -> Mentions(node.operand, name)
      [] node.k = "FunctionCall" -> MentionsAny(node.arguments, name)
      [] node.k = "ArrayAccess" ->
            Mentions(node.array, name) \/ Mentions(node.index, name)
      [] node.k \in {"ReturnStatement", "ExpressionStatement", "PrintStatement"} ->
            Mentions(node.expression, name)
      [] node.k = "IfStatement" ->
            \/ Mentions(node.condition, name)
            \/ Mentions(node.thenBranch, name)
            \/ Mentions(node.elseBranch, name)
      [] node.k = "WhileStatement" ->
            Mentions(node.condition, name) \/ Mentions(node.body, name)
      [] node.k = "ForStatement" ->
            \/ Mentions(node.init, name)
            \/ Mentions(node.condition, name)
            \/ Mentions(node.increment, name)
            \/ Mentions(node.body, name)
      [] node.k = "VariableDecl" -> Mentions(node.initializer, name)
      [] node.k = "BlockStatement" -> MentionsAny(node.statements, name)
      [] node.k = "FunctionDecl" -> Mentions(node.body, name)
      [] node.k = "Program" -> MentionsAny(node.functions, name)
      [] OTHER -> FALSE

MentionsAny(nodes, name) ==
    \E n \in 1..Len(nodes) : Mentions(nodes[n], name)

Analyzed == sema.runs > 0
Reported(message) ==
    \E n \in 1..Len(sema.reported) : sema.reported[n] = message

(***************************************************************************)
(* C8: after analyze() on a program that names the undeclared y in any     *)
(* statement and expression kind, "Undefined identifier: y" or             *)
(* "Undefined variable: y" has been reported and the error flag is set.    *)
(***************************************************************************)
C8_UndeclaredNameReported ==
    (Analyzed /\ Mentions(sema.program, "y")) =>
        /\ Reported("Undefined identifier: y") \/ Reported("Undefined variable: y")
        /\ hasErrors

(***************************************************************************)
(* C9: after analyze() on { int x = 5; } return x; in a process that had   *)
(* reported no error before, hasErrors() is true.                          *)
(***************************************************************************)
C9_BlockLocalIsOutOfScope ==
    (Analyzed /\ sema.program = BlockScopeProgram /\ ~sema.before) => hasErrors

(***************************************************************************)
(* C10: after every analyze() of a process, hasErrors() is true iff that   *)
(* run reported at least one semantic error.                               *)
(***************************************************************************)
C10_FlagTellsOfThisRun ==
    Analyzed => (hasErrors <=> sema.reported # <<>>)

\* the message analyzeFunctionCall reports for the callee of call
CalleeMessage(call) ==
    IF call.name = "x" THEN "'x' is not a function"
    ELSE "Undefined function: " \o call.name

(***************************************************************************)
(* C21: after analyze() on a program that calls an undefined name or the   *)
(* variable x with the undeclared y among the arguments, both the callee's *)
(* error and "Undefined identifier: y" have been reported.                 *)
(***************************************************************************)
C21_ArgumentsOfUnresolvedCallAnalysed ==
    \A c \in UnresolvedCalls :
        (Analyzed /\ sema.program \in
                        {AfterX(<<s>>) : s \in AnalysedStatementsWith(c)}) =>
            /\ Reported(CalleeMessage(c))
            /\ Reported("Undefined identifier: y")

\* the names a loop declares that main does not (every body drawn that
\* names j declares it)
LoopNames(loop) ==
    ({loop.init.name}
     \cup {n \in {"j"} : Mentions(loop.body, n)}) \ {"x"}

\* the for statement of a program of ForPrograms and the name read after it
LoopOf(program) == program.functions[2].body.statements[2]
ReadAfterLoop(program) ==
    LET statements == program.functions[2].body.statements
    IN  {n \in {"x", "i", "j"} :
            Len(statements) = 3 /\ Mentions(statements[3], n)}

(***************************************************************************)
(* C25: after analyze() on a program whose main declares x and then runs a *)
(* for loop that declares its own variables (one of them possibly named x  *)
(* again): for every name other than x that the statement after the loop  *)
(* reads, declared by the loop or not, "Undefined identifier" or           *)
(* "Undefined variable" with that name is reported; when that statement    *)
(* reads none, nothing is reported at all (the uses inside the loop        *)
(* resolve); and no declaration of the loop, x included, is reported as a  *)
(* duplicate.                                                              *)
(***************************************************************************)
C25_ForHasItsOwnScope ==
    (Analyzed /\ sema.program \in ForPrograms) =>
        LET gone == ReadAfterLoop(sema.program) \ {"x"}
        IN  /\ \A n \in gone :
                    \/ Reported("Undefined identifier: " \o n)
                    \/ Reported("Undefined variable: " \o n)
            /\ gone = {} => sema.reported = <<>>
            /\ \A n \in {"x", "i", "j"} :
                    ~Reported("Symbol '" \o n
                              \o "' already declared in current scope")

\* a loop over x that declares j in its body, followed by a use of j
C25_Witness ==
    /\ Analyzed
    /\ sema.program \in ForPrograms
    /\ LoopOf(sema.program).init.name = "x"
    /\ "j" \in LoopNames(LoopOf(sema.program))
    /\ "j" \in ReadAfterLoop(sema.program)
    /\ sema.reported[1] = "Undefined identifier: j"

\* the calls of exitScope that left a function: they deleted its scope
IsFunctionExit(e) == e.op = "exit" /\ e.depth = 1
FunctionExits == SelectSeq(sema.trace, IsFunctionExit)

\* the global scope as analyze() left it (0), or the scope of the k-th
\* function as it was when exitScope deleted it
ScopeOf(k) == IF k = 0 THEN sema.scopes[1] ELSE FunctionExits[k].deleted

AlreadyDeclared(name) ==
    "Symbol '" \o name \o "' already declared in current scope"

\* the places of a message among those reported
PlacesOf(message) ==
    {n \in 1..Len(sema.reported) : sema.reported[n] = message}

(***************************************************************************)
(* C26: a declaration of a name that its own scope already holds reports   *)
(* "Symbol '<name>' already declared in current scope", leaves the symbol  *)
(* of the scope as it was, and the analysis goes on (an undeclared y in    *)
(* every later function body is still reported after it); a declaration of *)
(* a name that only the enclosing scope holds reports no such error, puts  *)
(* the new symbol in the inner scope and leaves the outer one as it was.   *)
(***************************************************************************)
C26_DuplicateKeepsFirstSymbol ==
    \A c \in DeclCases :
        (Analyzed /\ sema.program = c.program) =>
            IF c.again
            THEN /\ Cardinality(PlacesOf(AlreadyDeclared(c.name))) = 1
                 /\ ScopeOf(c.scope)[c.name] = c.first
                 /\ c.tail # <<>> =>
                        \E m \in PlacesOf("Undefined identifier: y") :
                            \A n \in PlacesOf(AlreadyDeclared(c.name)) : n < m
                 /\ Len(FunctionExits) = Len(c.program.functions)
            ELSE /\ PlacesOf(AlreadyDeclared(c.name)) = {}
                 /\ ScopeOf(c.scope)[c.name] = c.inner
                 /\ ScopeOf(0)[c.name] = c.first
                 /\ c.tail = <<>> => sema.reported = <<>>

\* a run on int main() { int x = 0; float x = 1; return y; }
C26_Witness ==
    /\ Analyzed
    /\ \E c \in DeclCases :
          /\ sema.program = c.program
          /\ c.name = "x"
          /\ c.tail # <<>>
          /\ sema.reported[1] = AlreadyDeclared("x")
          /\ Len(sema.reported) > 1

(***************************************************************************)
(* C27: analyze() on "<type> v = <literal>;" or on "return <literal>;" in  *)
(* a function of that type, the literal being of the kind of the type      *)
(* (1 for int, 1.5 for float, "a" for string, true and false for bool),    *)
(* reports nothing.                                                        *)
(***************************************************************************)
C27_LiteralHasTheTypeOfItsKind ==
    (Analyzed /\ sema.program \in LiteralPrograms) => sema.reported = <<>>

\* the number of scopes on the chain before the n-th call of the trace
DepthBefore(n) == IF n = 1 THEN 1 ELSE sema.trace[n - 1].depth
Enters == {n \in 1..Len(sema.trace) : sema.trace[n].op = "enter"}
Exits == {n \in 1..Len(sema.trace) : sema.trace[n].op = "exit"}

(***************************************************************************)
(* C30: in every analyze() the chain of scopes never loses the global      *)
(* scope: every enterScope adds one scope and every exitScope is called    *)
(* with a scope other than the global one current and removes exactly it,  *)
(* the calls pair up, the scope is the global one again after each         *)
(* function (once per function of the program) and after analyze(), and    *)
(* the global scope still holds the functions, whether or not errors were  *)
(* reported.                                                               *)
(***************************************************************************)
C30_ScopeStackBalanced ==
    Analyzed =>
        /\ \A n \in Enters : sema.trace[n].depth = DepthBefore(n) + 1
        /\ \A n \in Exits :
                /\ DepthBefore(n) > 1
                /\ sema.trace[n].depth = DepthBefore(n) - 1
                /\ sema.trace[n].deleted # Null
        /\ Cardinality(Enters) = Cardinality(Exits)
        /\ Len(FunctionExits) = Len(sema.program.functions)
        /\ Len(sema.scopes) = 1
        /\ \A f \in 1..Len(sema.program.functions) :
                sema.program.functions[f].name \in DOMAIN sema.scopes[1]

\* a run that reported errors and entered a for scope inside a function
C30_Witness ==
    /\ Analyzed
    /\ sema.reported # <<>>
    /\ Len(sema.program.functions) = 2
    /\ \E n \in Enters : sema.trace[n].depth = 3
    /\ sema.trace[Len(sema.trace)].depth = 1

(***************************************************************************)
(* Arithmetic from source text to stored value: main() run on              *)
(*     int main() { int x = <expression>; }                                *)
(* where the expression is written from integer literals, the operators    *)
(* + - * / % and at most one pair of parentheses.                          *)
(***************************************************************************)
ArithLiterals == {0, 2, 3, 4, 12}
ArithOperators == {"+", "-", "*", "/", "%"}
ArithShapes == {"a", "a.b", "a.b.c", "(a.b).c", "a.(b.c)"}
Spacings == {"", " "}

\* the expressions drawn: three literals, two operators, a shape that says
\* which of them are written, and the blank written around operators
Drawings ==
    {[shape |-> "a", lits |-> <<a, 0, 0>>, ops |-> <<"+", "+">>, sp |-> sp] :
        a \in ArithLiterals, sp \in {""}}
    \cup {[shape |-> "a.b", lits |-> <<a, b, 0>>, ops |-> <<o, "+">>,
           sp |-> sp] :
            a \in ArithLiterals, b \in ArithLiterals, o \in ArithOperators,
            sp \in Spacings}
    \cup {[shape |-> sh, lits |-> <<a, b, c>>, ops |-> <<o1, o2>>,
           sp |-> " "] :
            sh \in ArithShapes \ {"a", "a.b"},
            a \in ArithLiterals, b \in ArithLiterals, c \in ArithLiterals,
            o1 \in ArithOperators, o2 \in ArithOperators}

\* the text of a drawn expression
Written(d) ==
    LET a == to_string(d.lits[1])
        b == to_string(d.lits[2])
        c == to_string(d.lits[3])
        o1 == d.sp \o d.ops[1] \o d.sp
        o2 == d.sp \o d.ops[2] \o d.sp
    IN  CASE d.shape = "a" -> a
          [] d.shape = "a.b" -> a \o o1 \o b
          [] d.shape = "a.b.c" -> a \o o1 \o b \o o2 \o c
          [] d.shape = "(a.b).c" -> "(" \o a \o o1 \o b \o ")" \o o2 \o c
          [] d.shape = "a.(b.c)" -> a \o o1 \o "(" \o b \o o2 \o c \o ")"

\* the integer operation an operator stands for; the quotient is truncated
\* toward zero and the remainder takes the sign of the dividend.  A zero
\* divisor makes the result undefined.
Operation(op, x, y) ==
    LET magnitude == Abs(x.val) \div Abs(y.val)
        quotient == IF (x.val < 0) = (y.val < 0) THEN magnitude
                    ELSE -magnitude
        Defined(v) == [defined |-> TRUE, val |-> v]
    IN  IF ~x.defined \/ ~y.defined \/ (op \in {"/", "%"} /\ y.val = 0)
        THEN [defined |-> FALSE, val |-> 0]
        ELSE CASE op = "+" -> Defined(x.val + y.val)
               [] op = "-" -> Defined(x.val - y.val)
               [] op = "*" -> Defined(x.val * y.val)
               [] op = "/" -> Defined(quotient)
               [] op = "%" -> Defined(x.val - y.val * quotient)

\* the value of a drawn expression by the usual rules: parentheses first,
\* then * / % before + -, and operators of one rank from left to right
Meaning(d) ==
    LET Lit(i) == [defined |-> TRUE, val |-> d.lits[i]]
        Binds(op) == IF op \in {"*", "/", "%"} THEN 2 ELSE 1
        leftFirst == Operation(d.ops[2],
                               Operation(d.ops[1], Lit(1), Lit(2)), Lit(3))
        rightFirst == Operation(d.ops[1], Lit(1),
                                Operation(d.ops[2], Lit(2), Lit(3)))
    IN  CASE d.shape = "a" -> Lit(1)
          [] d.shape = "a.b" -> Operation(d.ops[1], Lit(1), Lit(2))
          [] d.shape = "(a.b).c" -> leftFirst
          [] d.shape = "a.(b.c)" -> rightFirst
          [] d.shape = "a.b.c" ->
               IF Binds(d.ops[2]) > Binds(d.ops[1]) THEN rightFirst
               ELSE leftFirst

InitArith ==
    /\ stage = "lex"
    /\ drawn \in Drawings
    /\ source = "int main() { int x = " \o Written(drawn) \o "; }\n"
    /\ tokens = <<>>
    /\ ast = Null
    /\ gen = IRGenerator
    /\ rt = RtInit
    /\ outcome = NoOutcome
    /\ errors = FALSE
    /\ sema = SemaInit
    /\ lexer = Null
    /\ calls = 0

NextArith == Tokenize \/ Parse \/ Generate \/ NextFunction \/ Step

SpecArith == InitArith /\ [][NextArith]_vars

\* main() has returned
Finished == stage = "done"

\* the value the slot of x holds at the end of the run
StoredX == SlotOf(rt.temps, "l_x")

\* C4: an arithmetic expression of integer literals and + - * / % whose
\* divisors are not zero runs through lexer, parser, IR generator and
\* interpreter without error, and the value stored for it is the one the
\* integer operations give under the usual precedence, with the quotient
\* truncated toward zero
C4_ArithmeticValueStored ==
    (Finished /\ drawn # Null /\ Meaning(drawn).defined)
        => /\ outcome = [code |-> 0, err |-> ""]
           /\ StoredX = IntV(Meaning(drawn).val)

\* 2 + 3 * 4 has run and 14 is stored
C4_Witness ==
    /\ Finished
    /\ source = "int main() { int x = 2 + 3 * 4; }\n"
    /\ StoredX = IntV(14)

(***************************************************************************)
(* The executable on whole source texts: main() reads the text, then runs  *)
(* Lexer, Parser, IRGenerator and interpretIR in one try block.            *)
(***************************************************************************)
\* the source texts run, each named by a family and up to two numbers
\* programs that store in x an integer at or past the largest 32-bit one
WideFamilies == {"widelit", "wideadd", "widesub", "widemul"}

\* programs that branch on, or store, a && b or !a
LogicalFamilies == {"and", "andvalue", "not", "notvalue", "notwhile"}

\* programs that hand the a-th of CoerceTexts to an arithmetic operator, to
\* screen or to drawPixel
ArithCoerceFamilies == {"coadd", "cosub", "comul", "codiv", "comod"}
DrawCoerceFamilies == {"coscreen", "copixel"}

\* literals of the kinds a slot can hold: an integer, a float, a string of
\* digits, a string of letters, a string with a sign
CoerceTexts == <<"2", "2.5", "\"12\"", "\"abc\"", "\"-3\"", "\"7x\"">>

\* programs that branch or loop on the literals true and false
BooleanFamilies == {"iftrue", "iffalse", "whiletrue"}

\* programs that store or test a value under a unary minus
UnaryFamilies == {"negate", "negatevar", "negatecond"}

MainFamilies ==
    {"clean", "undeclared", "call", "window", "rescreen", "twomains", "loop",
     "nowindow"}
    \cup WideFamilies \cup ArithCoerceFamilies \cup DrawCoerceFamilies
    \cup BooleanFamilies \cup UnaryFamilies

MainPrograms ==
    {[family |-> f, a |-> a, b |-> 0] : f \in MainFamilies, a \in 0..MaxLit}
    \cup {[family |-> f, a |-> a, b |-> b] :
            f \in LogicalFamilies, a \in 0..MaxLit, b \in 0..MaxLit}

\* the decimal text of 2147483647 + n, for n below 6353
PastIntMax(n) == "214748" \o to_string(3647 + n)

\* the decimal text of 1073741824 * n, for n below 6
TimesTwoTo30(n) ==
    IF n = 0 THEN "0" ELSE to_string(107374 * n) \o to_string(1824 * n)

\* the text of a program
ProgramText(d) ==
    LET a == to_string(d.a)
        b == to_string(d.b)
        v == CoerceTexts[d.a + 1]
    IN  CASE d.family = "clean" ->
               "int main() { int x = " \o a \o "; print(x); }\n"
          [] d.family = "iftrue" ->
               "int main() { if (true) { print(" \o a
               \o "); } else { print(9); } }\n"
          [] d.family = "iffalse" ->
               "int main() { if (false) { print(9); } else { print(" \o a
               \o "); } }\n"
          [] d.family = "whiletrue" ->
               "int main() { while (true) { print(" \o a
               \o "); return 0; } print(9); }\n"
          [] d.family = "negate" ->
               "int main() { int x = -" \o a \o "; print(x); }\n"
          [] d.family = "negatevar" ->
               "int main() { int y = " \o a \o "; int x = 2 * -y; print(x); }\n"
          [] d.family = "negatecond" ->
               "int main() { int x = " \o a
               \o "; if (-x < 0) { print(1); } else { print(0); } }\n"
          [] d.family = "coadd" ->
               "int main() { int x = " \o v \o " + 1; print(x); }\n"
          [] d.family = "cosub" ->
               "int main() { int x = 7 - " \o v \o "; print(x); }\n"
          [] d.family = "comul" ->
               "int main() { int x = " \o v \o " * 2; print(x); }\n"
          [] d.family = "codiv" ->
               "int main() { int x = 7 / " \o v \o "; print(x); }\n"
          [] d.family = "comod" ->
               "int main() { int x = 7 % " \o v \o "; print(x); }\n"
          [] d.family = "coscreen" ->
               "int main() { screen(" \o v \o ", 3, \"t\"); print(1); }\n"
          [] d.family = "copixel" ->
               "int main() { screen(2, 2, \"w\"); drawPixel(" \o v
               \o ", 1, 2, 3, 4); print(1); }\n"
          [] d.family = "undeclared" ->
               "int main() { int x = " \o a \o "; print(x); x = y; }\n"
          [] d.family = "call" ->
               "int foo(int n) { print(9); return n; }\n"
               \o "int main() { int x = " \o a \o "; int y = foo(x); "
               \o "print(y); print(x); }\n"
          [] d.family = "window" ->
               "int main() { screen(" \o a \o ", 2, \"w\"); updateInput(); "
               \o "drawPixel(0, 0, 1, 1, 1); print(isKeyDown(\"a\")); "
               \o "display(); print(1); }\n"
          [] d.family = "rescreen" ->
               "int main() { screen(2, 2, \"w\"); updateInput(); "
               \o "screen(3, 3, \"v\"); clearScreen(0, 0, 0); display(); "
               \o "print(" \o a \o "); }\n"
          [] d.family = "twomains" ->
               "int main() { screen(2, 2, \"w\"); display(); print(1); }\n"
               \o "int main() { print(" \o a \o "); }\n"
          [] d.family = "loop" ->
               "int main() { screen(2, 2, \"w\"); int x = 0; "
               \o "while (x < " \o a \o ") { drawPixel(x, 0, 1, 1, 1); "
               \o "display(); x = x + 1; } quit(); print(3); }\n"
          [] d.family = "widelit" ->
               "int main() { int x = " \o PastIntMax(d.a) \o "; print(x); }\n"
          [] d.family = "wideadd" ->
               "int main() { int x = 2147483647 + " \o a \o "; print(x); }\n"
          [] d.family = "widesub" ->
               "int main() { int x = 2147483647 - (0 - " \o a
               \o "); print(x); }\n"
          [] d.family = "widemul" ->
               "int main() { int x = 1073741824 * " \o a \o "; print(x); }\n"
          [] d.family = "and" ->
               "int main() { if (" \o a \o " && " \o b
               \o ") { print(1); } else { print(0); } }\n"
          [] d.family = "andvalue" ->
               "int main() { int x = " \o a \o " && " \o b
               \o "; print(x); }\n"
          [] d.family = "not" ->
               "int main() { int x = " \o a
               \o "; if (!x) { print(1); } else { print(0); } }\n"
          [] d.family = "notvalue" ->
               "int main() { int x = !" \o a \o "; print(x); }\n"
          [] d.family = "notwhile" ->
               "int main() { int x = " \o a \o "; int n = 0; "
               \o "while (!x) { x = 1; n = 1; } print(n); }\n"
          [] d.family = "nowindow" ->
               "int main() { drawPixel(0, 0, 1, 1, 1); display(); "
               \o "int k = isKeyDown(\"a\"); updateInput(); print(" \o a
               \o "); }\n"

InitMain ==
    /\ stage = "lex"
    /\ drawn \in MainPrograms
    /\ source = ProgramText(drawn)
    /\ tokens = <<>>
    /\ ast = Null
    /\ gen = IRGenerator
    /\ rt = RtInit
    /\ outcome = NoOutcome
    /\ errors = FALSE
    /\ sema = SemaInit
    /\ lexer = Null
    /\ calls = 0

NextMain ==
    Tokenize \/ Parse \/ Generate \/ NextFunction \/ Step \/ WindowClosed

SpecMain == InitMain /\ [][NextMain]_vars

\* the program has been parsed and main() is past IR generation
PastGenerate == stage \in {"interpret", "done", "ub"} /\ ast # Null

\* what a SemanticAnalyzer writes to std::cerr when given the parsed program
Diagnostics == analyze(ast, FALSE).reported

(***************************************************************************)
(* C11: when the program main() has parsed holds a semantic error, every   *)
(* "Semantic Error: <message>" line of the analyzer has been written by    *)
(* the time the interpreter starts, and stays written to the end.          *)
(***************************************************************************)
C11_SemanticErrorsWrittenBeforeRun ==
    (PastGenerate /\ Diagnostics # <<>>) => sema.reported = Diagnostics

\* CALL instructions whose label has no handler in interpretIR
IsPlainCall(instr) ==
    /\ instr.opcode = "CALL"
    /\ instr.label \notin {"quit", "isKeyDown", "updateInput"}

\* the step taken executed one instruction
Stepped == Len(rt'.trace) = Len(rt.trace) + 1

\* reading a slot the way the handlers do, temps[key]
ReadSlot(temps, key) == Touch(temps, key)[key]

\* nothing has been printed by a function other than main: foo prints 9 and
\* main never does
OnlyMainPrinted == \A n \in 1..Len(rt.out) : rt.out[n] # "9"

HandleLive == rt.g_graphics # 0 /\ rt.objects[rt.g_graphics].alive

\* the step taken executed a PRESENT
Presented == Stepped /\ Current.opcode = "PRESENT"

\* the step taken left the loop through PRESENT's break
LeftByPresent == rt'.closed # rt.closed

\* the handle is destroyed and absent and the loop of the function is left
Closes ==
    /\ rt'.g_graphics = 0
    /\ ~rt'.objects[rt.g_graphics].alive
    /\ rt'.closed = rt.fi
    /\ rt'.ip = Len(Instructions)

\* C14 as stated: once the collaborator has set its should-close flag, the
\* next PRESENT destroys the handle and leaves it absent, no instruction is
\* executed after that, and only a PRESENT ends execution for the flag
C14_NextPresentEndsExecution ==
    /\ [][(Presented /\ rt.flagged /\ HandleLive) => Closes]_vars
    /\ [][rt.closed # 0 => ~Stepped]_vars
    /\ [][LeftByPresent => Presented]_vars

\* the Graphics g_graphics points to has its should-close flag set, or will
\* have it set by the next handleEvents
CloseDue ==
    /\ HandleLive
    /\ ~rt.objects[rt.g_graphics].open \/ rt.quitEvent

(***************************************************************************)
(* C14: a PRESENT executed while the Graphics that g_graphics points to    *)
(* has its should-close flag set (or sets it in this poll) destroys that   *)
(* Graphics, leaves g_graphics absent and leaves the loop of the function  *)
(* being run, so that no further instruction of that function is executed  *)
(* (a later function named main still runs); no other instruction leaves   *)
(* the loop for the flag, CALL updateInput included; and a PRESENT that    *)
(* finds an open window, such as one a SCREEN constructed after the flag   *)
(* was set, does not end execution.                                        *)
(***************************************************************************)
C14_PresentClosesFlaggedWindow ==
    /\ [][(Presented /\ CloseDue) => Closes]_vars
    /\ [][(Presented /\ HandleLive /\ ~CloseDue) =>
             (~LeftByPresent /\ rt'.ip = rt.ip + 1 /\ HandleLive')]_vars
    /\ [][(Stepped /\ rt.closed # 0) => rt.fi > rt.closed]_vars
    /\ [][LeftByPresent => (Presented /\ CloseDue)]_vars

\* the flag was set by CALL updateInput, drawPixel and CALL isKeyDown ran
\* on, and the PRESENT after them closed the window: print(1) never ran
C14_Witness ==
    /\ stage = "done"
    /\ drawn.family = "window"
    /\ rt.closed = 1
    /\ rt.g_graphics = 0
    /\ Len(rt.trace) > 12
    /\ rt.out = <<"Graphics window created: 2x2 - w", "0">>

\* the Graphics objects that have not been deleted
LiveObjects == {n \in DOMAIN rt.objects : rt.objects[n].alive}

(***************************************************************************)
(* C15: the interpreter holds at most one window, and g_graphics, when not *)
(* absent, points to a Graphics that has not been destroyed; in            *)
(* particular it is absent after a SCREEN whose construction failed.       *)
(***************************************************************************)
C15_HandleIsLiveWindow ==
    /\ Cardinality(LiveObjects) <= 1
    /\ rt.g_graphics # 0 => rt.g_graphics \in LiveObjects

\* the decimal text of the integer a wide program stores in x
WideResult(d) ==
    IF d.family = "widemul" THEN TimesTwoTo30(d.a) ELSE PastIntMax(d.a)

\* main() has returned or run into undefined behaviour
Ended == stage \in {"done", "ub"}

(***************************************************************************)
(* C16: a program that stores in x a literal, a sum, a difference or a     *)
(* product whose value lies between 0 and 2^32 ends without error, and x   *)
(* holds exactly that value as an Integer.                                 *)
(***************************************************************************)
C16_IntegersAre64Bit ==
    (Ended /\ drawn.family \in WideFamilies) =>
        /\ stage = "done"
        /\ outcome = [code |-> 0, err |-> ""]
        /\ StoredX # Null
        /\ StoredX.t = "int"
        /\ to_string(StoredX.i) = WideResult(drawn)

\* 1 for true and 0 for false
Truth(b) == IF b THEN "1" ELSE "0"

\* what a logical program prints when && and ! mean what they say: each
\* program prints the truth value of its condition
LogicalResult(d) ==
    IF d.family \in {"and", "andvalue"} THEN Truth(d.a # 0 /\ d.b # 0)
    ELSE Truth(d.a = 0)

(***************************************************************************)
(* C17: a program that branches on a && b or !a in an if or a while, or    *)
(* stores its value, ends without error and has taken the branch, or       *)
(* stored the value, that and (1 iff both operands are non-zero) and not   *)
(* (1 iff the operand is zero) prescribe.                                  *)
(***************************************************************************)
C17_LogicalOperatorsWork ==
    (Ended /\ drawn.family \in LogicalFamilies) =>
        /\ stage = "done"
        /\ outcome = [code |-> 0, err |-> ""]
        /\ rt.out = <<LogicalResult(drawn)>>

\* the integer the a-th of CoerceTexts stands for, and whether it is one
CoerceInts == <<2, 2, 12, 0, -3, 7>>
CoerceParses(a) == a # 3

\* what an arithmetic coercion program stores in x
CoerceResult(d) ==
    LET v == CoerceInts[d.a + 1]
    IN  CASE d.family = "coadd" -> v + 1
          [] d.family = "cosub" -> 7 - v
          [] d.family = "comul" -> v * 2
          [] d.family = "codiv" -> TruncDiv(7, v)
          [] d.family = "comod" -> TruncMod(7, v)

\* an arithmetic program has ended as the conversion of its literal says
ArithCoerced ==
    IF CoerceParses(drawn.a)
    THEN /\ outcome = [code |-> 0, err |-> ""]
         /\ StoredX = IntV(CoerceResult(drawn))
    ELSE outcome.code = 1 /\ StoredX = Null

\* a drawing program has handed the integer n to screen or to drawPixel,
\* when a window could be made
DrawCoerced(n) ==
    /\ outcome = [code |-> 0, err |-> ""]
    /\ rt.objects # <<>> =>
          IF drawn.family = "coscreen"
          THEN rt.out[1] = "Graphics window created: " \o to_string(n)
                               \o "x3 - t"
          ELSE rt.objects[1].args = <<n, 1, 2, 3, 4>>

C28_BooleanLiteralKeepsItsTruth ==
    (Ended /\ drawn.family \in BooleanFamilies) =>
        /\ stage = "done"
        /\ outcome = [code |-> 0, err |-> ""]
        /\ rt.out = <<to_string(drawn.a)>>

\* the instructions the generator has emitted, of all functions
Emitted ==
    UNION {{gen.functions[f].instructions[i] :
                i \in 1..Len(gen.functions[f].instructions)} :
           f \in 1..Len(gen.functions)}

(***************************************************************************)
(* C29: every instruction the generator has emitted carries the operands   *)
(* its handler reads: two for ADD SUB MUL DIV MOD CONCAT and the           *)
(* comparisons, one for JZ, in programs with unary minus and ! as in all   *)
(* others.                                                                 *)
(***************************************************************************)
C29_OperandsAsTheHandlerReads ==
    PastGenerate =>
        \A instr \in Emitted :
            /\ instr.opcode \in ArithOps \cup DivOps \cup CompareOps
                                 \cup {"CONCAT"}
                    => Len(instr.operands) = 2
            /\ instr.opcode = "JZ" => Len(instr.operands) = 1

(***************************************************************************)
(* The lexer alone: Lexer lexer(text); lexer.tokenize(), one action per    *)
(* nextToken() call of tokenize()'s loop.  The texts are lists of token    *)
(* spellings joined by single spaces, and all short texts over an alphabet *)
(* that holds every character class the lexer tells apart.                 *)
(***************************************************************************)
MaxWords == 2
MaxLen == 3

\* spellings of recognized tokens
NumberWords == {"0", "12", "3.5"}
NameWords == {"x1", "_y", "while", "true", "drawPixel"}
OperatorWords == {"+", "/", "=", "==", "!", "<=", "&&", "||"}
DelimiterWords == {"(", "}", ";", ","}
StringWords == {"\"ab\"", "'c'", "\"a\\nb\""}
LexWords ==
    NumberWords \cup NameWords \cup OperatorWords \cup DelimiterWords
    \cup StringWords

LexAlphabet ==
    {"a", "7", " ", "\n", "\"", "'", "\\", "/", "*", "&", "|", "=", "."}

RECURSIVE WordLists(_)
WordLists(n) ==
    IF n = 0 THEN {<<>>}
    ELSE LET shorter == WordLists(n - 1)
         IN  shorter \cup {Append(ws, w) : ws \in shorter, w \in LexWords}

RECURSIVE Texts(_)
Texts(n) ==
    IF n = 0 THEN {""}
    ELSE LET shorter == Texts(n - 1)
         IN  shorter \cup {t \o c : t \in shorter, c \in LexAlphabet}

RECURSIVE JoinWithSpaces(_)
JoinWithSpaces(ws) ==
    CASE Len(ws) = 0 -> ""
      [] Len(ws) = 1 -> ws[1]
      [] OTHER -> ws[1] \o " " \o JoinWithSpaces(Tail(ws))

\* Lexer lexer(text), for a text written from token spellings or any text
InitLex ==
    /\ stage = "lexing"
    /\ \/ /\ drawn \in {[family |-> "words", words |-> ws] :
                          ws \in WordLists(MaxWords)}
          /\ source = JoinWithSpaces(drawn.words)
       \/ /\ drawn = [family |-> "text"]
          /\ source \in Texts(MaxLen)
    /\ lexer = Lexer(source)
    /\ calls = 0
    /\ tokens = <<>>
    /\ ast = Null
    /\ gen = IRGenerator
    /\ rt = RtInit
    /\ outcome = NoOutcome
    /\ errors = FALSE
    /\ sema = SemaInit

\* token = nextToken(); tokens.push_back(token), until END_OF_FILE is pushed
NextToken ==
    /\ stage = "lexing"
    /\ LET r == nextToken(lexer)
       IN  /\ calls' = calls + 1
           /\ lexer' = r.lx
           /\ tokens' = Append(tokens, r.token)
           /\ stage' = IF r.token.type = "END_OF_FILE" THEN "lexed"
                       ELSE "lexing"
    /\ UNCHANGED <<source, ast, gen, rt, outcome, errors, sema, drawn>>

NextLex == NextToken

SpecLex == InitLex /\ [][NextLex]_vars

\* tokenize() has returned
Lexed == stage = "lexed"

\* the value fields of the tokens other than NEWLINE and END_OF_FILE
Values ==
    LET kept == SelectSeq(tokens,
                    LAMBDA t : t.type \notin {"NEWLINE", "END_OF_FILE"})
    IN  [n \in 1..Len(kept) |-> kept[n].value]

\* the text was written from token spellings
WrittenFromWords == drawn.family = "words"

\* the text was written from token spellings, none of them a string literal
WrittenWithoutStrings ==
    /\ WrittenFromWords
    /\ \A n \in 1..Len(drawn.words) : drawn.words[n] \notin StringWords

\* C12 as stated: tokens of every kind, string literals included, joined by
\* single spaces come back as the text when the token values are joined
C12_RoundTripEveryToken ==
    (Lexed /\ WrittenFromWords) => JoinWithSpaces(Values) = source

(***************************************************************************)
(* C12: for a text of integer and float literals, identifiers, keywords,   *)
(* operators and delimiters separated by single spaces, the values of the  *)
(* tokens other than NEWLINE and END_OF_FILE, joined by single spaces, are *)
(* the text.  (The value of a string literal is its content.)              *)
(***************************************************************************)
C12_RoundTripWithoutStrings ==
    (Lexed /\ WrittenWithoutStrings) => JoinWithSpaces(Values) = source

\* x1 == has been tokenized into two tokens and END_OF_FILE
C12_Witness ==
    /\ Lexed
    /\ source = "x1 =="
    /\ WrittenFromWords
    /\ Values = <<"x1", "==">>
    /\ Len(tokens) = 3

\* a turn of tokenize()'s loop, by its count alone: every NextToken step is
\* one, and no other step is
LoopTurn == stage = "lexing" /\ calls' = calls + 1

\* tokenize() goes on while its loop's test says so: nothing else stops it
SpecLexFair == SpecLex /\ WF_calls(LoopTurn)

\* the tokens of type END_OF_FILE
EndTokens == {n \in 1..Len(tokens) : tokens[n].type = "END_OF_FILE"}

\* a nextToken() call moved the lexer forward in the text
Consumed == lexer'.position > lexer.position

(***************************************************************************)
(* C19: tokenize() returns for every text; what it returns holds exactly   *)
(* one END_OF_FILE token, as its last element; and every nextToken() call  *)
(* consumes at least one character or returns END_OF_FILE.                 *)
(***************************************************************************)
C19_TokenizeTerminates ==
    /\ <>Lexed
    /\ [](Lexed => EndTokens = {Len(tokens)})
    /\ [][NextToken => (Consumed \/ tokens'[Len(tokens')].type = "END_OF_FILE")]_vars

\* a text that ends inside an escape of an unterminated string is tokenized
C19_Witness ==
    /\ Lexed
    /\ source = "\"a\\"
    /\ Len(tokens) = 2
    /\ tokens[1].type = "STRING"

\* the text is a letter or digit, a lone & or |, and a letter or digit
AroundLoneOperator ==
    /\ drawn.family = "text"
    /\ Len(source) = 3
    /\ CharAt(source, 1) \in {"a", "7"}
    /\ CharAt(source, 2) \in {"&", "|"}
    /\ CharAt(source, 3) \in {"a", "7"}

(***************************************************************************)
(* C23: of a text such as a&b or 7|a, tokenize() returns the token of the  *)
(* first character, one UNKNOWN token holding the & or | at line 1 column  *)
(* 2, the token of the third character at column 3, and END_OF_FILE.       *)
(***************************************************************************)
C23_LoneOperatorIsOneUnknown ==
    (Lexed /\ AroundLoneOperator) =>
        /\ Len(tokens) = 4
        /\ tokens[1].value = CharAt(source, 1)
        /\ tokens[2] = Token("UNKNOWN", CharAt(source, 2), 1, 2)
        /\ tokens[3].value = CharAt(source, 3)
        /\ tokens[3].column = 3
        /\ tokens[4].type = "END_OF_FILE"

(***************************************************************************)
(* The parser on expressions: main() up to parse() on                      *)
(*     int main() { return <expression>; }                                 *)
(* where the expression joins three operands by two binary operators or    *)
(* assignments, or puts a unary operator and a postfix before one binary   *)
(* operator.                                                               *)
(***************************************************************************)
\* the spelling and the token type of the binary operators, and the rank of
\* each in the precedence order (assignment has rank 2)
BinaryOperators ==
    {<<",", "COMMA", 1>>, <<"||", "OR", 3>>, <<"&&", "AND", 4>>,
     <<"==", "EQUAL", 5>>, <<"!=", "NOT_EQUAL", 5>>, <<"<", "LESS", 6>>,
     <<"<=", "LESS_EQUAL", 6>>, <<">", "GREATER", 6>>,
     <<">=", "GREATER_EQUAL", 6>>, <<"+", "PLUS", 7>>, <<"-", "MINUS", 7>>,
     <<"*", "STAR", 8>>, <<"/", "SLASH", 8>>, <<"%", "PERCENT", 8>>}
AssignOperator == <<"=", "ASSIGN", 2>>
UnaryOperators == {<<"-", "MINUS", 9>>, <<"!", "NOT", 9>>}
Postfixes == {"", "call", "index"}

\* what is written left of an = : the name a, bare or in parentheses, and
\* expressions that are no name
NameTargets == {"a", "(a)"}
OtherTargets ==
    {"a[0]", "a(1)", "a()", "5", "\"s\"", "(a + b)", "(a[0])", "-a", "!a",
     "a * b", "true"}

\* what is written right of it, with the tree it parses to
AssignedValues ==
    {<<"1", Literal("INTEGER", "1")>>,
     <<"b", Identifier("b")>>,
     <<"b = 2", Assignment("b", Literal("INTEGER", "2"))>>,
     <<"b = c = 2",
       Assignment("b", Assignment("c", Literal("INTEGER", "2")))>>}

ParseDrawings ==
    {[family |-> "two", o1 |-> o1, o2 |-> o2] :
        o1 \in BinaryOperators \cup {AssignOperator},
        o2 \in BinaryOperators \cup {AssignOperator}}
    \cup {[family |-> "assign", target |-> t, value |-> v] :
            t \in NameTargets \cup OtherTargets, v \in AssignedValues}
    \cup {[family |-> "unary", o1 |-> u, o2 |-> o, post |-> post] :
            u \in UnaryOperators, o \in BinaryOperators, post \in Postfixes}

\* the text of a drawn expression
ExpressionText(d) ==
    IF d.family = "assign" THEN d.target \o " = " \o d.value[1]
    ELSE IF d.family = "two"
    THEN "a " \o d.o1[1] \o " b " \o d.o2[1] \o " c"
    ELSE d.o1[1] \o "a"
         \o (CASE d.post = "call" -> "(b)"
               [] d.post = "index" -> "[b]"
               [] OTHER -> "")
         \o " " \o d.o2[1] \o " c"

\* the tree the precedence order prescribes for a drawn expression: of two
\* binary operators the one of higher rank is the deeper node, and the left
\* one when the ranks are equal; an assignment takes all that follows it up
\* to a comma as its value
Prescribed(d) ==
    LET a == Identifier("a")
        b == Identifier("b")
        c == Identifier("c")
        Node(l, o, r) == IF o = AssignOperator THEN Assignment(l.name, r)
                         ELSE BinaryOp(l, o[2], r)
        operand == CASE d.post = "call" -> FunctionCall("a", <<b>>)
                     [] d.post = "index" -> ArrayAccess(a, b)
                     [] OTHER -> a
    IN  IF d.family = "unary"
        THEN BinaryOp(UnaryOp(d.o1[2], operand), d.o2[2], c)
        ELSE IF d.o2[3] > d.o1[3] \/ (d.o1 = AssignOperator /\ d.o2 = d.o1)
        THEN Node(a, d.o1, Node(b, d.o2, c))
        ELSE Node(Node(a, d.o1, b), d.o2, c)

\* a operator b = c with an operator above assignment: the target of the
\* assignment would be a operator b, which is no identifier
AssignsToOperation(d) ==
    d.family = "two" /\ d.o2 = AssignOperator /\ d.o1[3] > 2

InitParse ==
    /\ stage = "lex"
    /\ drawn \in ParseDrawings
    /\ source = "int main() { return " \o ExpressionText(drawn) \o "; }"
    /\ tokens = <<>>
    /\ ast = Null
    /\ gen = IRGenerator
    /\ rt = RtInit
    /\ outcome = NoOutcome
    /\ errors = FALSE
    /\ sema = SemaInit
    /\ lexer = Null
    /\ calls = 0

NextParse == Tokenize \/ Parse

SpecParse == InitParse /\ [][NextParse]_vars

\* parse() has returned or thrown
ParseEnded == stage \in {"generate", "done"}

\* the expression of the return statement parse() built
ReturnedExpression == ast.functions[1].body.statements[1].expression

(***************************************************************************)
(* C18: for operands joined by two binary operators the parser builds the  *)
(* tree with the operator of higher precedence as the deeper node, the     *)
(* left one deeper when both are of one level, and the right one deeper    *)
(* for two assignments; a unary operator binds tighter than any binary     *)
(* operator and a call or index tighter than the unary operator.           *)
(***************************************************************************)
C18_PrecedenceShapesTheTree ==
    (ParseEnded /\ drawn.family \in {"two", "unary"}
                /\ ~AssignsToOperation(drawn)) =>
        /\ stage = "generate"
        /\ ReturnedExpression = Prescribed(drawn)

\* a + b * c has been parsed as a + (b * c)
C18_Witness ==
    /\ stage = "generate"
    /\ source = "int main() { return a + b * c; }"
    /\ ReturnedExpression =
          BinaryOp(Identifier("a"), "PLUS",
                   BinaryOp(Identifier("b"), "STAR", Identifier("c")))

(***************************************************************************)
(* C24: of "<target> = <value>" the parser builds an Assignment to a when  *)
(* the target is the name a (bare or in parentheses), with the value       *)
(* parsed to its own tree (b = c = 2 as b = (c = 2)); when the target is   *)
(* an index access, a call, a literal, a parenthesised operation or a      *)
(* unary or binary operation, parse() throws "Invalid assignment target"   *)
(* and no tree is produced.                                                *)
(***************************************************************************)
C24_AssignmentTargetIsAName ==
    (ParseEnded /\ drawn.family = "assign") =>
        IF drawn.target \in NameTargets
        THEN /\ stage = "generate"
             /\ ReturnedExpression = Assignment("a", drawn.value[2])
        ELSE /\ stage = "done"
             /\ ast = Null
             /\ outcome = mainCatch("Invalid assignment target")

\* a[0] = b = 2 has been rejected
C24_Witness ==
    /\ stage = "done"
    /\ source = "int main() { return a[0] = b = 2; }"
    /\ outcome = mainCatch("Invalid assignment target")

====
